---------------------------- MODULE Spec2Model ----------------------------
(***************************************************************************)
(* A model of scripts/auto-changeset.mjs: the commit-to-package            *)
(* attribution and classification pipeline that writes one changeset       *)
(* document per affected package.                                          *)
(*                                                                         *)
(* Strings are sequences of one-character strings, so that startsWith,     *)
(* includes, trim, toLowerCase, replace and split act on them as they do   *)
(* in JavaScript.  The Korean heading literals of generateKoreanSummary    *)
(* are single romanised tokens (the module is ASCII).                      *)
(***************************************************************************)
EXTENDS Integers, Sequences, FiniteSets, TLC

VARIABLES
    \* one call of generateChangeset and of the file-name computation
    callArgs,   \* its input: packageName, commits, prUrl, prNumber
    callRet,    \* what it computed, or NoRet before the call
    \* the environment of a run of main
    argv,       \* process.argv.slice(2)
    repo,       \* what the git queries answer: commits in range, refs, failures
    disk,       \* the directories under packages/
    unwritable, \* the file names of .changeset/ that cannot be written
    fs,         \* the files of .changeset/: file name -> content
    \* one run of main
    pc,         \* the position of main
    frame,      \* main's local variables
    exitCode,   \* -1 while running, then the process exit status
    trace,      \* the external queries and writes of this run, in order
    written,    \* the file names this run wrote
    \* across runs
    runNo,      \* the number of the current run
    rerun,      \* this run has the arguments and repository state of the previous one
    fsBefore,   \* fs when this run started
    writtenBefore, \* the file names the previous run wrote
    changed,    \* the repository changed since the last run ended
    writeLog,   \* every (prNumber, packageName, filename) ever written
    \* the React hooks of packages/react-hooks
    component,  \* the component that calls useInstance: its hook cells and its renders
    consumer    \* the component that calls a useSafeContext hook, and the Providers above it

-----------------------------------------------------------------------------
(* Bounds of the model *)

\* the longest commit list given to one generateChangeset call
MaxCommits == 2
\* the most commits in the range of a run
MaxRepoCommits == 2
\* the most runs of main in a row
MaxRuns == 2
\* the most renders of the component
MaxRenders == 5
\* the most calls of trigger
MaxTriggers == 3
\* the most Providers above the consumer
MaxDepth == 2
\* the most assignments to the signal
MaxAssigns == 2

-----------------------------------------------------------------------------
(* JavaScript string primitives *)

NullStr == << >>

Upper == <<"A","B","C","D","E","F","G","H","I","J","K","L","M",
           "N","O","P","Q","R","S","T","U","V","W","X","Y","Z">>
Lower == <<"a","b","c","d","e","f","g","h","i","j","k","l","m",
           "n","o","p","q","r","s","t","u","v","w","x","y","z">>

LowerChar(c) ==
    IF \E i \in DOMAIN Upper : Upper[i] = c
    THEN Lower[CHOOSE i \in DOMAIN Upper : Upper[i] = c]
    ELSE c

toLowerCase(s) == [i \in 1..Len(s) |-> LowerChar(s[i])]

IsWhitespace(c) == c \in {" ", "\t", "\n"}

SetMin(S) == CHOOSE m \in S : \A n \in S : m <= n
SetMax(S) == CHOOSE m \in S : \A n \in S : m >= n

trim(s) ==
    LET solid == {i \in 1..Len(s) : ~IsWhitespace(s[i])}
    IN  IF solid = {} THEN << >> ELSE SubSeq(s, SetMin(solid), SetMax(solid))

trimStart(s) ==
    LET solid == {i \in 1..Len(s) : ~IsWhitespace(s[i])}
    IN  IF solid = {} THEN << >> ELSE SubSeq(s, SetMin(solid), Len(s))

startsWith(s, p) == Len(s) >= Len(p) /\ SubSeq(s, 1, Len(p)) = p

includes(s, p) == \E i \in 1..(Len(s) - Len(p) + 1) : SubSeq(s, i, i + Len(p) - 1) = p

\* s.substring(0, n)
substring0(s, n) == SubSeq(s, 1, IF Len(s) < n THEN Len(s) ELSE n)

\* s.replace(ch, rep) with a string pattern: only the FIRST occurrence is replaced
replaceFirst(s, ch, rep) ==
    LET hits == {i \in 1..Len(s) : s[i] = ch}
    IN  IF hits = {} THEN s
        ELSE LET k == SetMin(hits)
             IN  SubSeq(s, 1, k - 1) \o rep \o SubSeq(s, k + 1, Len(s))

\* s.split('/').pop(): the text after the last '/', the whole text if there is none
lastSegment(s) ==
    LET hits == {i \in 1..Len(s) : s[i] = "/"}
    IN  IF hits = {} THEN s ELSE SubSeq(s, SetMax(hits) + 1, Len(s))

\* s.split(sep) for a one-character separator: '' splits into ['']
RECURSIVE split(_, _)
split(s, sep) ==
    LET hits == {i \in 1..Len(s) : s[i] = sep}
    IN  IF hits = {} THEN <<s>>
        ELSE <<SubSeq(s, 1, SetMin(hits) - 1)>> \o split(SubSeq(s, SetMin(hits) + 1, Len(s)), sep)

\* parts.join(sep)
RECURSIVE join(_, _)
join(parts, sep) ==
    IF Len(parts) = 0 THEN << >>
    ELSE IF Len(parts) = 1 THEN parts[1]
    ELSE parts[1] \o <<sep>> \o join(Tail(parts), sep)

\* the empty lines are kept: '' splits into [''], one commit line
nonEmptyLines_keepAll(lines) == lines

\* lines.filter(line => line.length > 0)
nonEmptyLines(lines) == SelectSeq(lines, LAMBDA line : Len(line) > 0)

\* msg.replace(/^<type>:\s*/i, ''): strips "<type>:" and the whitespace after it,
\* only when msg begins with exactly that (case-insensitively)
stripTypePrefix(msg, type) ==
    LET pat == type \o <<":">>
    IN  IF startsWith(toLowerCase(msg), pat)
        THEN trimStart(SubSeq(msg, Len(pat) + 1, Len(msg)))
        ELSE msg

-----------------------------------------------------------------------------
(* Literals of the script *)

BREAKING_CHANGE == <<"B","R","E","A","K","I","N","G"," ","C","H","A","N","G","E">>
BANG_COLON == <<"!",":">>
FEAT == <<"f","e","a","t">>
FIX == <<"f","i","x">>
REFACTOR == <<"r","e","f","a","c","t","o","r">>
PERF == <<"p","e","r","f">>
DOCS == <<"d","o","c","s">>
CHORE == <<"c","h","o","r","e">>
PACKAGES_SLASH == <<"p","a","c","k","a","g","e","s","/">>
AUTO_PR == <<"a","u","t","o","-","p","r","-">>
DOT_MD == <<".","m","d">>

CategoryNames ==
    <<"features", "bugFixes", "refactoring", "performance", "documentation", "chores", "others">>

-----------------------------------------------------------------------------
(* determineVersionType *)

hasBreakingChange(messages) ==
    \E i \in DOMAIN messages :
        includes(messages[i], BREAKING_CHANGE) \/ includes(messages[i], BANG_COLON)

\* the feat test on the raw message, neither trimmed nor lower-cased
hasFeat_raw(messages) ==
    \E i \in DOMAIN messages : startsWith(messages[i], FEAT)

\* the feat test with the colon: 'feat:' only
hasFeat_colon(messages) ==
    \E i \in DOMAIN messages : startsWith(toLowerCase(trim(messages[i])), FEAT \o <<":">>)

hasFeat(messages) ==
    \E i \in DOMAIN messages : startsWith(toLowerCase(trim(messages[i])), FEAT)

hasFix(messages) ==
    \E i \in DOMAIN messages : startsWith(toLowerCase(trim(messages[i])), FIX)

\* the feat rule tested before the breaking rule
determineVersionType_featFirst(commits) ==
    LET messages == [i \in DOMAIN commits |-> commits[i].message]
    IN  IF hasFeat(messages) THEN "minor"
        ELSE IF hasBreakingChange(messages) THEN "major"
        ELSE "patch"

determineVersionType(commits) ==
    LET messages == [i \in DOMAIN commits |-> commits[i].message]
    IN  IF hasBreakingChange(messages) THEN "major"
        ELSE IF hasFeat(messages) THEN "minor"
        ELSE IF hasFix(messages) THEN "patch"
        ELSE "patch"

-----------------------------------------------------------------------------
(* categorizeCommits *)

EmptyCategories == [c \in {CategoryNames[i] : i \in DOMAIN CategoryNames} |-> << >>]

\* `${text} (${hash})`
formatItem(text, hash) == text \o <<" ", "(">> \o hash \o <<")">>

\* the prefix tests written with the colon ('fix:'), as the strip patterns are
categorizeOne_colonTest(commit) ==
    LET msg == trim(commit.message)
        lowerMsg == toLowerCase(msg)
        hash == substring0(commit.hash, 7)
        hits == {k \in 1..6 : startsWith(lowerMsg, <<FEAT, FIX, REFACTOR, PERF, DOCS, CHORE>>[k] \o <<":">>)}
    IN  IF hits = {} THEN [category |-> "others", item |-> formatItem(msg, hash)]
        ELSE LET k == CHOOSE k \in hits : TRUE
             IN  [category |-> CategoryNames[k],
                  item |-> formatItem(stripTypePrefix(msg, <<FEAT, FIX, REFACTOR, PERF, DOCS, CHORE>>[k]), hash)]

\* the prefix tests made on the trimmed message without lower-casing it
categorizeOne_caseSensitive(commit) ==
    LET msg == trim(commit.message)
        hash == substring0(commit.hash, 7)
        hits == {k \in 1..6 : startsWith(msg, <<FEAT, FIX, REFACTOR, PERF, DOCS, CHORE>>[k])}
    IN  IF hits = {} THEN [category |-> "others", item |-> formatItem(msg, hash)]
        ELSE LET k == CHOOSE k \in hits : TRUE
             IN  [category |-> CategoryNames[k],
                  item |-> formatItem(stripTypePrefix(msg, <<FEAT, FIX, REFACTOR, PERF, DOCS, CHORE>>[k]), hash)]

\* one iteration of commits.forEach: the category pushed to and the item pushed
categorizeOne(commit) ==
    LET msg == trim(commit.message)
        lowerMsg == toLowerCase(msg)
        hash == substring0(commit.hash, 7)
    IN  IF startsWith(lowerMsg, FEAT)
        THEN [category |-> "features", item |-> formatItem(stripTypePrefix(msg, FEAT), hash)]
        ELSE IF startsWith(lowerMsg, FIX)
        THEN [category |-> "bugFixes", item |-> formatItem(stripTypePrefix(msg, FIX), hash)]
        ELSE IF startsWith(lowerMsg, REFACTOR)
        THEN [category |-> "refactoring", item |-> formatItem(stripTypePrefix(msg, REFACTOR), hash)]
        ELSE IF startsWith(lowerMsg, PERF)
        THEN [category |-> "performance", item |-> formatItem(stripTypePrefix(msg, PERF), hash)]
        ELSE IF startsWith(lowerMsg, DOCS)
        THEN [category |-> "documentation", item |-> formatItem(stripTypePrefix(msg, DOCS), hash)]
        ELSE IF startsWith(lowerMsg, CHORE)
        THEN [category |-> "chores", item |-> formatItem(stripTypePrefix(msg, CHORE), hash)]
        ELSE [category |-> "others", item |-> formatItem(msg, hash)]

\* the item is put in front of its category (unshift) instead of behind (push)
RECURSIVE categorizeFrom_unshift(_, _, _)
categorizeFrom_unshift(commits, i, categories) ==
    IF i > Len(commits) THEN categories
    ELSE LET one == categorizeOne(commits[i])
         IN  categorizeFrom_unshift(commits, i + 1,
                 [categories EXCEPT ![one.category] = <<one.item>> \o @])

RECURSIVE categorizeFrom(_, _, _)
categorizeFrom(commits, i, categories) ==
    IF i > Len(commits) THEN categories
    ELSE LET one == categorizeOne(commits[i])
         IN  categorizeFrom(commits, i + 1,
                 [categories EXCEPT ![one.category] = Append(@, one.item)])

categorizeCommits(commits) == categorizeFrom(commits, 1, EmptyCategories)

-----------------------------------------------------------------------------
(* generateKoreanSummary, generateChangeset *)

\* the heading literal of each category, romanised, one token each
HeadingText ==
    [features      |-> "{saeroun gineung}",
     bugFixes      |-> "{beogeu sujeong}",
     refactoring   |-> "{ripaektoring}",
     performance   |-> "{seongneung gaeseon}",
     documentation |-> "{munseo}",
     chores        |-> "{gita}",
     others        |-> "{gita byeongyeongsahang}"]

\* '-   **<heading>**\n'
headingLine(c) == <<"-", " ", " ", " ", "*", "*", HeadingText[c], "*", "*", "\n">>

\* `    -   ${item}\n`
itemLine(item) == <<" ", " ", " ", " ", "-", " ", " ", " ">> \o item \o <<"\n">>

RECURSIVE itemLines(_, _)
itemLines(items, i) ==
    IF i > Len(items) THEN << >> ELSE itemLine(items[i]) \o itemLines(items, i + 1)

\* the block without its test: the heading is written for an empty category too
section_keepEmpty(categories, c) == headingLine(c) \o itemLines(categories[c], 1)

\* one `if (categories.<c>.length > 0) { ... }` block
section(categories, c) ==
    IF Len(categories[c]) > 0 THEN headingLine(c) \o itemLines(categories[c], 1) ELSE << >>

generateKoreanSummary(categories) ==
    trim(section(categories, "features")
         \o section(categories, "bugFixes")
         \o section(categories, "refactoring")
         \o section(categories, "performance")
         \o section(categories, "documentation")
         \o section(categories, "chores")
         \o section(categories, "others"))

\* the label is the URL itself
prLink_wholeUrl(prUrl) ==
    <<"\n", "*", "*", "{gwallyeon PR}", "*", "*", ":", " ", "[", "#">>
    \o prUrl \o <<"]", "(">> \o prUrl \o <<")", "\n">>

\* '\n**<related PR>**: [#<n>](<url>)\n'
prLink(prUrl) ==
    <<"\n", "*", "*", "{gwallyeon PR}", "*", "*", ":", " ", "[", "#">>
    \o lastSegment(prUrl) \o <<"]", "(">> \o prUrl \o <<")", "\n">>

generateChangeset(packageName, commits, prUrl) ==
    LET versionType == determineVersionType(commits)
        categories == categorizeCommits(commits)
        summary == generateKoreanSummary(categories)
        changeset == <<"-", "-", "-", "\n", "\"">> \o packageName \o <<"\"", ":", " ", versionType, "\n">>
                     \o <<"-", "-", "-", "\n", "\n">> \o summary \o <<"\n">>
    IN  IF prUrl # NullStr THEN changeset \o prLink(prUrl) ELSE changeset

-----------------------------------------------------------------------------
(* The file name main gives a package's changeset *)

\* packageName.replace('@', '').replace('/', '-')
safePackageName(packageName) == replaceFirst(replaceFirst(packageName, "@", << >>), "/", <<"-">>)

\* the file name led by the time of the run: `${timestamp}-${safePackageName}.md`
changesetFilename_timestamp(prNumber, packageName) ==
    <<ToString(runNo), "-">> \o safePackageName(packageName) \o DOT_MD

\* `auto-pr-${prNumber}-${safePackageName}.md`
changesetFilename(prNumber, packageName) ==
    AUTO_PR \o prNumber \o <<"-">> \o safePackageName(packageName) \o DOT_MD

-----------------------------------------------------------------------------
(* The git queries, answered by the repository state *)

\* the text `git log <range> --oneline --no-merges` prints: '<hash> <subject>\n' per commit
gitLogText(commitsInRange) ==
    IF Len(commitsInRange) = 0 THEN << >>
    ELSE LET RECURSIVE lines(_)
             lines(i) == IF i > Len(commitsInRange) THEN << >>
                         ELSE commitsInRange[i].hash \o <<" ">> \o commitsInRange[i].subject
                              \o <<"\n">> \o lines(i + 1)
         IN  lines(1)

\* the text `git show --name-only --format="" <hash>` prints: one path per line
gitShowText(files) == IF Len(files) = 0 THEN << >> ELSE join(files, "\n") \o <<"\n">>

\* the failure of the query is not seen: the lines of the log are returned
getCommitsInRange_ignoreFailure(fromRef, toRef) ==
    nonEmptyLines(split(trim(gitLogText(repo.commits)), "\n"))

\* repo.commits are the non-merge commits of the range fromRef..toRef
getCommitsInRange(fromRef, toRef) ==
    IF repo.logOk
    THEN nonEmptyLines(split(trim(gitLogText(repo.commits)), "\n"))
    ELSE << >>

\* the failure of the query is not noticed: the files are returned all the same
getChangedFilesInCommit_ignoreFailure(commitHash) ==
    LET known == {i \in DOMAIN repo.commits : repo.commits[i].hash = commitHash}
    IN  IF known # {}
        THEN nonEmptyLines(split(trim(gitShowText(repo.commits[SetMin(known)].files)), "\n"))
        ELSE << >>

getChangedFilesInCommit(commitHash) ==
    LET known == {i \in DOMAIN repo.commits : repo.commits[i].hash = commitHash}
    IN  IF known # {} /\ commitHash \notin repo.showFails
        THEN nonEmptyLines(split(trim(gitShowText(repo.commits[SetMin(known)].files)), "\n"))
        ELSE << >>

-----------------------------------------------------------------------------
(* getPackages *)

\* every directory of packages/ is taken for a package
getPackages_noFilter ==
    [i \in DOMAIN disk |-> [name |-> disk[i].name,
                            path |-> PACKAGES_SLASH \o disk[i].directory,
                            directory |-> disk[i].directory]]

getPackages ==
    LET dirs == SelectSeq(disk, LAMBDA d : d.hasPackageJson)
    IN  [i \in DOMAIN dirs |-> [name |-> dirs[i].name,
                                path |-> PACKAGES_SLASH \o dirs[i].directory,
                                directory |-> dirs[i].directory]]

-----------------------------------------------------------------------------
(* categorizeCommitsByPackage *)

\* file.startsWith(pkg.path) , without the separator
underPackage_noSlash(file, pkg) == startsWith(file, pkg.path)

\* file.startsWith(pkg.path + '/')
underPackage(file, pkg) == startsWith(file, pkg.path \o <<"/">>)

\* the keys of an object, in insertion order, each once
RECURSIVE keysInOrder(_)
keysInOrder(names) ==
    IF Len(names) = 0 THEN << >>
    ELSE LET rest == keysInOrder(SubSeq(names, 1, Len(names) - 1))
             last == names[Len(names)]
         IN  IF \E i \in DOMAIN rest : rest[i] = last THEN rest ELSE Append(rest, last)

\* packages.forEach(pkg => { packageCommits[pkg.name] = []; })
emptyPackageCommits(packages) ==
    LET keys == keysInOrder([i \in DOMAIN packages |-> packages[i].name])
    IN  [keys |-> keys, at |-> [n \in {keys[i] : i \in DOMAIN keys} |-> << >>]]

\* const [commitHash, ...messageParts] = commitLine.split(' ')
commitHashOf(commitLine) == split(commitLine, " ")[1]

\* messageParts.join(' ')
messageOf(commitLine) == join(Tail(split(commitLine, " ")), " ")

\* the inner packages.forEach with a commit skipped when the package already holds an
\* entry with the same message
RECURSIVE attributeFrom_dedupByMessage(_, _, _, _, _)
attributeFrom_dedupByMessage(packageCommits, packages, k, commitLine, changedFiles) ==
    IF k > Len(packages) THEN packageCommits
    ELSE LET pkg == packages[k]
             hasPackageChanges == \E i \in DOMAIN changedFiles : underPackage(changedFiles[i], pkg)
             known == \E i \in DOMAIN packageCommits.at[pkg.name] :
                          packageCommits.at[pkg.name][i].message = messageOf(commitLine)
             entry == [hash |-> commitHashOf(commitLine),
                       message |-> messageOf(commitLine),
                       files |-> SelectSeq(changedFiles, LAMBDA file : underPackage(file, pkg))]
         IN  attributeFrom_dedupByMessage(IF hasPackageChanges /\ ~known
                           THEN [packageCommits EXCEPT !.at[pkg.name] = Append(@, entry)]
                           ELSE packageCommits,
                           packages, k + 1, commitLine, changedFiles)

\* the inner packages.forEach of one commit, from package k on
RECURSIVE attributeFrom(_, _, _, _, _)
attributeFrom(packageCommits, packages, k, commitLine, changedFiles) ==
    IF k > Len(packages) THEN packageCommits
    ELSE LET pkg == packages[k]
             hasPackageChanges == \E i \in DOMAIN changedFiles : underPackage(changedFiles[i], pkg)
             entry == [hash |-> commitHashOf(commitLine),
                       message |-> messageOf(commitLine),
                       files |-> SelectSeq(changedFiles, LAMBDA file : underPackage(file, pkg))]
         IN  attributeFrom(IF hasPackageChanges
                           THEN [packageCommits EXCEPT !.at[pkg.name] = Append(@, entry)]
                           ELSE packageCommits,
                           packages, k + 1, commitLine, changedFiles)

\* one iteration of commits.forEach
attributeCommit(packageCommits, packages, commitLine) ==
    attributeFrom(packageCommits, packages, 1, commitLine,
                  getChangedFilesInCommit(commitHashOf(commitLine)))

\* the packages with an empty array are kept
removeEmpty_keepAll(packageCommits) == packageCommits

\* Object.keys(packageCommits).forEach: delete the packages with an empty array
removeEmpty(packageCommits) ==
    LET keys == SelectSeq(packageCommits.keys, LAMBDA n : Len(packageCommits.at[n]) > 0)
    IN  [keys |-> keys, at |-> [n \in {keys[i] : i \in DOMAIN keys} |-> packageCommits.at[n]]]

-----------------------------------------------------------------------------
(* main: the arguments *)

HTTP == <<"h","t","t","p",":","/","/">>
HTTPS == <<"h","t","t","p","s",":","/","/">>

\* /^https?:\/\//i.test(arg)
isUrl(arg) == startsWith(toLowerCase(arg), HTTP) \/ startsWith(toLowerCase(arg), HTTPS)

\* array[i] || null, for a 0-based index
orNull(array, i) == IF i + 1 <= Len(array) THEN array[i + 1] ELSE NullStr

parsePrUrl(args) == orNull(SelectSeq(args, isUrl), 0)

\* the URL arguments are left among the positional ones
nonUrlArgs_all(args) == args

nonUrlArgs(args) == SelectSeq(args, LAMBDA arg : ~isUrl(arg))

parsePrNumber(args) ==
    IF orNull(nonUrlArgs(args), 2) # NullStr THEN orNull(nonUrlArgs(args), 2)
    ELSE IF parsePrUrl(args) # NullStr THEN lastSegment(parsePrUrl(args))
    ELSE NullStr

-----------------------------------------------------------------------------
(* main: the target branch *)

ORIGIN_MAIN == <<"o","r","i","g","i","n","/","m","a","i","n">>
MAIN == <<"m","a","i","n">>
ORIGIN_MASTER == <<"o","r","i","g","i","n","/","m","a","s","t","e","r">>
MASTER == <<"m","a","s","t","e","r">>

candidates == <<ORIGIN_MAIN, MAIN, ORIGIN_MASTER, MASTER>>

\* the candidates `git rev-parse --verify` is run on, up to the first that resolves
probed ==
    LET ok == {k \in DOMAIN candidates : candidates[k] \in repo.refs}
    IN  IF ok = {} THEN candidates ELSE SubSeq(candidates, 1, SetMin(ok))

upstreamFound == repo.upstreamOk /\ trim(repo.upstream) # NullStr

\* the candidates are probed before the upstream is asked
getDefaultBaseRef_candidatesFirst(branch) ==
    IF \E k \in DOMAIN candidates : candidates[k] \in repo.refs
    THEN probed[Len(probed)]
    ELSE IF upstreamFound THEN trim(repo.upstream)
    ELSE ORIGIN_MAIN

getDefaultBaseRef(branch) ==
    IF upstreamFound THEN trim(repo.upstream)
    ELSE IF \E k \in DOMAIN candidates : candidates[k] \in repo.refs
    THEN probed[Len(probed)]
    ELSE ORIGIN_MAIN

\* the queries getDefaultBaseRef makes
defaultBaseRefQueries(branch) ==
    <<[op |-> "rev-parse upstream", arg |-> branch]>>
    \o (IF upstreamFound THEN << >>
        ELSE [k \in DOMAIN probed |-> [op |-> "rev-parse verify", arg |-> probed[k]]])

\* the fallback of the failed merge-base taken from the other end of the range
resolveMergeBase_source(targetBranch, sourceBranch) ==
    IF repo.mergeBaseOk THEN trim(repo.mergeBase) ELSE sourceBranch

\* lines 474-480: `git merge-base <target> <source>`, trimmed; the target branch when it fails
resolveMergeBase(targetBranch, sourceBranch) ==
    IF repo.mergeBaseOk THEN trim(repo.mergeBase) ELSE targetBranch

-----------------------------------------------------------------------------
(* main: writing *)

\* the content is added after what the file holds
writeFileSync_append(files, filename, content) ==
    [f \in DOMAIN files \cup {filename} |->
        IF f = filename
        THEN (IF f \in DOMAIN files THEN files[f] \o content ELSE content)
        ELSE files[f]]

\* fs.writeFileSync(changesetPath, changeset): creates the file or replaces its content
writeFileSync(files, filename, content) ==
    [f \in DOMAIN files \cup {filename} |-> IF f = filename THEN content ELSE files[f]]

-----------------------------------------------------------------------------
(* Inputs of the classification calls *)

\* the commit subjects
Subject ==
    [feat |-> <<"f","e","a","t",":"," ","a">>,
     fix |-> <<"f","i","x",":"," ","b">>,
     fixBang |-> <<"f","i","x","!",":"," ","c">>,
     featScope |-> <<"f","e","a","t","(","u","i",")",":"," ","d">>,
     feature |-> <<"f","e","a","t","u","r","e",":"," ","e">>,
     wip |-> <<" ","w","i","p">>,
     docsBreaking |-> <<"d","o","c","s",":"," ","B","R","E","A","K","I","N","G"," ","C","H","A","N","G","E">>,
     FixUpper |-> <<"F","i","x",":"," "," ","g">>,
     refactor |-> <<"r","e","f","a","c","t","o","r",":"," ","h">>,
     perf |-> <<"p","e","r","f",":"," ","i">>,
     chore |-> <<"c","h","o","r","e",":"," ","j">>,
     midBang |-> <<"u","p"," ","a","!",":","b">>,
     FEATpad |-> <<" ","F","E","A","T",":"," ","m"," ">>,
     lowerBreaking |-> <<"b","r","e","a","k","i","n","g"," ","c","h","a","n","g","e">>]

SubjectPool ==
    {Subject.feat, Subject.fix, Subject.fixBang, Subject.featScope, Subject.feature, Subject.wip, Subject.docsBreaking, Subject.FixUpper,
     Subject.refactor, Subject.perf, Subject.chore, Subject.midBang, Subject.FEATpad, Subject.lowerBreaking}


\* the hash of the i-th commit of a list (git log --oneline abbreviates to 7 or more)
Hashes ==
    <<<<"a","1","b","2","c","3","d">>,
      <<"e","4","f","5","a","6","b","7","c","8">>,
      <<"0","d","9","e","8","f","7">>,
      <<"c","0","f","f","e","e","1","2">>,
      <<"5","c","a","1","a","b","1","e">>,
      <<"7","e","5","7","a","b","1">>>>

\* the package names (the name of package.json)
Name ==
    [core |-> <<"c","o","r","e">>,
     scopedUi |-> <<"@","s","g","/","u","i">>,
     twoSlash |-> <<"@","s","g","/","u","i","/","x">>,
     twoAt |-> <<"@","s","g","/","@","u","i">>,
     plain |-> <<"s","g","-","u","i">>,
     coreUtils |-> <<"c","o","r","e","-","u","t","i","l","s">>]

\* the command-line arguments: PR URLs, PR numbers, source and target branches
Arg ==
    [url |-> <<"h","t","t","p","s",":","/","/","g","h","/","p","u","l","l","/","7">>,
     seven |-> <<"7">>,
     nine |-> <<"9">>,
     urlSlash |-> <<"h","t","t","p","s",":","/","/","g","h","/","p","u","l","l","/","7","/">>,
     urlUpper |-> <<"H","T","T","P",":","/","/","G","H","/","8">>,
     src |-> <<"d","e","v">>,
     tgt |-> <<"o","r","i","g","i","n","/","m","a","i","n">>,
     rel |-> <<"r","e","l">>]

\* every list of 1 to MaxCommits subjects: a package of packageCommits has a commit
CommitListsOf(subjects) ==
    UNION {[1..n -> subjects] : n \in 1..MaxCommits}

\* the directories under packages/
Dir ==
    [core |-> <<"c","o","r","e">>,
     coreUtils |-> <<"c","o","r","e","-","u","t","i","l","s">>,
     ui |-> <<"u","i">>,
     docs |-> <<"d","o","c","s">>,
     sgUi |-> <<"s","g","-","u","i">>]

\* the changed files
File ==
    [coreX |-> <<"p","a","c","k","a","g","e","s","/","c","o","r","e","/","x",".","t","s">>,
     coreZ |-> <<"p","a","c","k","a","g","e","s","/","c","o","r","e","/","z",".","t","s">>,
     coreUtilsY |-> <<"p","a","c","k","a","g","e","s","/","c","o","r","e","-","u","t","i","l","s","/","y",".","t","s">>,
     uiB |-> <<"p","a","c","k","a","g","e","s","/","u","i","/","b",".","t","s">>,
     readme |-> <<"R","E","A","D","M","E",".","m","d">>,
     packagesNote |-> <<"p","a","c","k","a","g","e","s","/","n","o","t","e",".","m","d">>,
     sgUiA |-> <<"p","a","c","k","a","g","e","s","/","s","g","-","u","i","/","a",".","t","s">>]

BASE_SHA == <<"b","4","5","e","0","0","0">>

\* packages/ as readdirSync lists it: three packages and a directory without package.json
DiskA ==
    <<[directory |-> Dir.core, hasPackageJson |-> TRUE, name |-> Name.core],
      [directory |-> Dir.coreUtils, hasPackageJson |-> TRUE, name |-> Name.coreUtils],
      [directory |-> Dir.docs, hasPackageJson |-> FALSE, name |-> NullStr],
      [directory |-> Dir.ui, hasPackageJson |-> TRUE, name |-> Name.scopedUi]>>

\* the commits a branch may hold
K_uiFeat == [hash |-> Hashes[1], subject |-> Subject.feat, files |-> <<File.uiB>>]
K_coreBang == [hash |-> Hashes[2], subject |-> Subject.fixBang, files |-> <<File.readme, File.coreX, File.coreZ>>]
K_utilsFix == [hash |-> Hashes[3], subject |-> Subject.fix, files |-> <<File.coreUtilsY>>]
K_rootOnly == [hash |-> Hashes[4], subject |-> Subject.wip, files |-> <<File.readme, File.packagesNote>>]
K_both == [hash |-> Hashes[5], subject |-> Subject.feat, files |-> <<File.uiB, File.coreX>>]

CommitPool == {K_uiFeat, K_coreBang, K_utilsFix, K_rootOnly, K_both}

\* the lists of at most MaxRepoCommits distinct commits, most recent first
RepoCommitLists ==
    {list \in UNION {[1..n -> CommitPool] : n \in 0..MaxRepoCommits} :
        \A i, j \in DOMAIN list : i # j => list[i] # list[j]}

ArgvPool == {<<Arg.url, Arg.src, Arg.tgt>>, <<Arg.src, Arg.tgt, Arg.seven>>, <<Arg.url, Arg.src>>}

\* the entries of one package of packageCommits, as categorizeCommitsByPackage records them
asCommits(messages) ==
    [i \in DOMAIN messages |-> [hash |-> Hashes[i], message |-> messages[i], files |-> <<File.coreX>>]]

\* the (packageName, prUrl) pairs the calls are made with
CallTargets ==
    {<<Name.core, NullStr>>, <<Name.scopedUi, Arg.url>>, <<Name.twoSlash, NullStr>>,
     <<Name.twoAt, Arg.url>>, <<Name.plain, Arg.url>>}

NoRet == [done |-> FALSE]

NoFrame ==
    [prUrl |-> NullStr, sourceBranch |-> NullStr, targetArg |-> NullStr, prNumber |-> NullStr,
     targetBranch |-> NullStr, mergeBase |-> NullStr, packages |-> << >>, commits |-> << >>,
     packageCommits |-> [keys |-> << >>, at |-> << >>], i |-> 0, k |-> 0, reported |-> -1]

\* the state outside the runs of main: the single call, and the React components
callVars == <<callArgs, callRet, component, consumer>>
envVars == <<argv, repo, disk, unwritable>>
runVars == <<pc, frame, exitCode, trace, written>>
historyVars == <<runNo, rerun, changed, fsBefore, writtenBefore, writeLog>>
vars == <<callArgs, callRet, argv, repo, disk, unwritable, fs, pc, frame, exitCode, trace,
          written, runNo, rerun, changed, fsBefore, writtenBefore, writeLog, component, consumer>>

\* no component rendered yet
NoComponent ==
    [init |-> "none", alive |-> FALSE, crashed |-> FALSE,
     cells |-> [state |-> 0, ref |-> [kind |-> "undefined", id |-> 0]],
     queue |-> 0, initCalls |-> 0, allocated |-> 0, count |-> 0,
     returned |-> << >>, triggers |-> 0]

\* no consumer rendered yet
NoConsumer ==
    [hook |-> 0, ancestors |-> << >>, symbols |-> 0, done |-> FALSE,
     result |-> [threw |-> FALSE, message |-> "", value |-> [kind |-> "undefined", id |-> 0]]]

\* no React tree
NoReact == component = NoComponent /\ consumer = NoConsumer

\* no run of main
NoRun ==
    /\ argv = << >>
    /\ repo = [commits |-> << >>, logOk |-> TRUE, showFails |-> {}, mergeBaseOk |-> TRUE,
               mergeBase |-> BASE_SHA, upstreamOk |-> FALSE, upstream |-> NullStr, refs |-> {}]
    /\ disk = << >>
    /\ unwritable = {}
    /\ fs = << >>
    /\ pc = "idle"
    /\ frame = NoFrame
    /\ exitCode = -1
    /\ trace = << >>
    /\ written = {}
    /\ runNo = 0
    /\ rerun = FALSE
    /\ changed = FALSE
    /\ fsBefore = << >>
    /\ writtenBefore = {}
    /\ writeLog = {}

InitClassify ==
    /\ \E target \in CallTargets, messages \in CommitListsOf(SubjectPool) :
          callArgs = [packageName |-> target[1], commits |-> asCommits(messages),
                      prUrl |-> target[2], prNumber |-> Arg.seven]
    /\ callRet = NoRet
    /\ NoRun
    /\ NoReact

\* the body of main's forEach up to the file name, for one package
CallGenerateChangeset ==
    /\ callRet = NoRet
    /\ pc = "idle"
    /\ callRet' = [done |-> TRUE,
                   versionType |-> determineVersionType(callArgs.commits),
                   categories |-> categorizeCommits(callArgs.commits),
                   changeset |-> generateChangeset(callArgs.packageName, callArgs.commits,
                                                   callArgs.prUrl),
                   safePackageName |-> safePackageName(callArgs.packageName),
                   filename |-> changesetFilename(callArgs.prNumber, callArgs.packageName)]
    /\ UNCHANGED <<callArgs, component, consumer, envVars, fs, runVars, historyVars>>

NextClassify == CallGenerateChangeset

SpecClassify == InitClassify /\ [][NextClassify]_vars

-----------------------------------------------------------------------------
(* main, step by step *)

\* a working repository: the log and show queries succeed, the merge-base exists, the
\* source branch has no upstream and 'main' is the only candidate that exists
Init ==
    /\ callArgs = [packageName |-> NullStr, commits |-> << >>, prUrl |-> NullStr,
                   prNumber |-> NullStr]
    /\ callRet = NoRet
    /\ argv \in ArgvPool
    /\ \E list \in RepoCommitLists :
           repo = [commits |-> list, logOk |-> TRUE, showFails |-> {}, mergeBaseOk |-> TRUE,
                   mergeBase |-> BASE_SHA \o <<"\n">>, upstreamOk |-> FALSE,
                   upstream |-> NullStr, refs |-> {MAIN}]
    /\ disk = DiskA
    /\ unwritable = {}
    /\ fs = << >>
    /\ pc = "start"
    /\ frame = NoFrame
    /\ exitCode = -1
    /\ trace = << >>
    /\ written = {}
    /\ runNo = 1
    /\ rerun = FALSE
    /\ changed = FALSE
    /\ fsBefore = << >>
    /\ writtenBefore = {}
    /\ writeLog = {}
    /\ NoReact

\* lines 427-444: the arguments; exit 1 without a source branch or a PR number
ParseArgs ==
    /\ pc = "start"
    /\ LET sourceBranch == orNull(nonUrlArgs(argv), 0)
           prNumber == parsePrNumber(argv)
       IN  /\ frame' = [frame EXCEPT !.prUrl = parsePrUrl(argv),
                                     !.sourceBranch = sourceBranch,
                                     !.targetArg = orNull(nonUrlArgs(argv), 1),
                                     !.prNumber = prNumber]
           /\ IF sourceBranch = NullStr \/ prNumber = NullStr
              THEN pc' = "exited" /\ exitCode' = 1
              ELSE pc' = "resolve" /\ exitCode' = exitCode
    /\ UNCHANGED <<callVars, envVars, fs, trace, written, historyVars>>

\* lines 473-480: the target branch and the merge-base, or the target branch in its place
ResolveRange ==
    /\ pc = "resolve"
    /\ LET targetBranch == IF frame.targetArg # NullStr THEN frame.targetArg
                           ELSE getDefaultBaseRef(frame.sourceBranch)
           mergeBase == resolveMergeBase(targetBranch, frame.sourceBranch)
       IN  /\ frame' = [frame EXCEPT !.targetBranch = targetBranch, !.mergeBase = mergeBase]
           /\ trace' = trace
                       \o (IF frame.targetArg # NullStr THEN << >>
                           ELSE defaultBaseRefQueries(frame.sourceBranch))
                       \o <<[op |-> "merge-base", arg |-> targetBranch \o <<" ">> \o frame.sourceBranch]>>
    /\ pc' = "packages"
    /\ UNCHANGED <<callVars, envVars, fs, exitCode, written, historyVars>>

\* lines 485-489: the packages; exit 1 when there is none
ScanPackages ==
    /\ pc = "packages"
    /\ frame' = [frame EXCEPT !.packages = getPackages]
    /\ trace' = Append(trace, [op |-> "readdir", arg |-> PACKAGES_SLASH])
    /\ IF Len(getPackages) = 0
       THEN pc' = "exited" /\ exitCode' = 1
       ELSE pc' = "load" /\ exitCode' = exitCode
    /\ UNCHANGED <<callVars, envVars, fs, written, historyVars>>

\* lines 495-499 and 164-169: the commits of the range; return when there is none
LoadCommits ==
    /\ pc = "load"
    /\ LET commits == getCommitsInRange(frame.mergeBase, frame.sourceBranch)
       IN  /\ frame' = [frame EXCEPT !.commits = commits,
                                     !.packageCommits = emptyPackageCommits(frame.packages),
                                     !.i = 1]
           /\ IF Len(commits) = 0
              THEN pc' = "done" /\ exitCode' = 0
              ELSE pc' = "attribute" /\ exitCode' = exitCode
    /\ trace' = Append(trace, [op |-> "log", arg |-> frame.mergeBase \o <<".", ".">> \o frame.sourceBranch])
    /\ UNCHANGED <<callVars, envVars, fs, written, historyVars>>

\* lines 171-192: one commit: its changed files, then every package
AttributeCommit ==
    /\ pc = "attribute"
    /\ frame.i <= Len(frame.commits)
    /\ frame' = [frame EXCEPT !.packageCommits = attributeCommit(frame.packageCommits, frame.packages,
                                                                 frame.commits[frame.i]),
                              !.i = frame.i + 1]
    /\ trace' = Append(trace, [op |-> "show", arg |-> commitHashOf(frame.commits[frame.i])])
    /\ UNCHANGED <<callVars, envVars, fs, pc, exitCode, written, historyVars>>

\* attribution is closed whatever the number of commits already handled
FinishAttribution_early ==
    /\ pc = "attribute"
    /\ LET packageCommits == removeEmpty(frame.packageCommits)
       IN  /\ frame' = [frame EXCEPT !.packageCommits = packageCommits, !.k = 1]
           /\ IF Len(packageCommits.keys) = 0
              THEN pc' = "done" /\ exitCode' = 0
              ELSE pc' = "write" /\ exitCode' = exitCode
    /\ UNCHANGED <<callVars, envVars, fs, trace, written, historyVars>>

\* lines 194-201 and 508-511: drop the packages without commit; return when none is left
FinishAttribution ==
    /\ pc = "attribute"
    /\ frame.i > Len(frame.commits)
    /\ LET packageCommits == removeEmpty(frame.packageCommits)
       IN  /\ frame' = [frame EXCEPT !.packageCommits = packageCommits, !.k = 1]
           /\ IF Len(packageCommits.keys) = 0
              THEN pc' = "done" /\ exitCode' = 0
              ELSE pc' = "write" /\ exitCode' = exitCode
    /\ UNCHANGED <<callVars, envVars, fs, trace, written, historyVars>>

\* the write is not guarded: a failing write ends the process with status 1
WriteChangeset_uncaught ==
    /\ pc = "write"
    /\ frame.k <= Len(frame.packageCommits.keys)
    /\ LET packageName == frame.packageCommits.keys[frame.k]
           changeset == generateChangeset(packageName, frame.packageCommits.at[packageName],
                                          frame.prUrl)
           filename == changesetFilename(frame.prNumber, packageName)
       IN  IF filename \notin unwritable
           THEN /\ fs' = writeFileSync(fs, filename, changeset)
                /\ written' = written \cup {filename}
                /\ writeLog' = writeLog \cup {[prNumber |-> frame.prNumber,
                                               packageName |-> packageName,
                                               filename |-> filename]}
                /\ trace' = Append(trace, [op |-> "write", arg |-> filename])
                /\ pc' = pc
                /\ exitCode' = exitCode
           ELSE /\ UNCHANGED <<fs, written, writeLog>>
                /\ trace' = Append(trace, [op |-> "write failed", arg |-> filename])
                /\ pc' = "exited"
                /\ exitCode' = 1
    /\ frame' = [frame EXCEPT !.k = frame.k + 1]
    /\ UNCHANGED <<callVars, envVars, runNo, rerun, changed, fsBefore, writtenBefore>>

\* lines 515-533: one package: render, name the file, write it; a failed write is caught
WriteChangeset ==
    /\ pc = "write"
    /\ frame.k <= Len(frame.packageCommits.keys)
    /\ LET packageName == frame.packageCommits.keys[frame.k]
           changeset == generateChangeset(packageName, frame.packageCommits.at[packageName],
                                          frame.prUrl)
           filename == changesetFilename(frame.prNumber, packageName)
       IN  IF filename \notin unwritable
           THEN /\ fs' = writeFileSync(fs, filename, changeset)
                /\ written' = written \cup {filename}
                /\ writeLog' = writeLog \cup {[prNumber |-> frame.prNumber,
                                               packageName |-> packageName,
                                               filename |-> filename]}
                /\ trace' = Append(trace, [op |-> "write", arg |-> filename])
           ELSE /\ UNCHANGED <<fs, written, writeLog>>
                /\ trace' = Append(trace, [op |-> "write failed", arg |-> filename])
    /\ frame' = [frame EXCEPT !.k = frame.k + 1]
    /\ UNCHANGED <<callVars, envVars, pc, exitCode, runNo, rerun, changed, fsBefore, writtenBefore>>

\* line 535: the closing line, which counts every package of packageCommits
Report ==
    /\ pc = "write"
    /\ frame.k > Len(frame.packageCommits.keys)
    /\ frame' = [frame EXCEPT !.reported = Len(frame.packageCommits.keys)]
    /\ pc' = "done"
    /\ exitCode' = 0
    /\ UNCHANGED <<callVars, envVars, fs, trace, written, historyVars>>

\* between two runs a commit is pushed to the source branch
Push ==
    /\ pc \in {"done", "exited"}
    /\ runNo < MaxRuns
    /\ Len(repo.commits) < MaxRepoCommits
    /\ \E c \in CommitPool :
           /\ \A i \in DOMAIN repo.commits : repo.commits[i] # c
           /\ repo' = [repo EXCEPT !.commits = <<c>> \o @]
    /\ changed' = TRUE
    /\ UNCHANGED <<callVars, argv, disk, unwritable, fs, runVars, runNo, rerun, fsBefore,
                   writtenBefore, writeLog>>

\* the script is invoked again, with the same arguments
StartRun ==
    /\ pc \in {"done", "exited"}
    /\ runNo < MaxRuns
    /\ pc' = "start"
    /\ frame' = NoFrame
    /\ exitCode' = -1
    /\ trace' = << >>
    /\ written' = {}
    /\ runNo' = runNo + 1
    /\ rerun' = ~changed
    /\ changed' = FALSE
    /\ fsBefore' = fs
    /\ writtenBefore' = written
    /\ UNCHANGED <<callVars, envVars, fs, writeLog>>

Next ==
    \/ ParseArgs
    \/ ResolveRange
    \/ ScanPackages
    \/ LoadCommits
    \/ AttributeCommit
    \/ FinishAttribution
    \/ WriteChangeset
    \/ Report
    \/ Push
    \/ StartRun

Spec == Init /\ [][Next]_vars

-----------------------------------------------------------------------------
(* main in an environment that fails *)

\* a repository whose queries all succeed, with the given commits in the range
WorkingRepo(list) ==
    [commits |-> list, logOk |-> TRUE, showFails |-> {}, mergeBaseOk |-> TRUE,
     mergeBase |-> BASE_SHA \o <<"\n">>, upstreamOk |-> FALSE, upstream |-> NullStr,
     refs |-> {MAIN}]

\* the first run of main is about to start, with these arguments in this environment
InitRun(args, repository, packagesDir, readOnly) ==
    /\ callArgs = [packageName |-> NullStr, commits |-> << >>, prUrl |-> NullStr,
                   prNumber |-> NullStr]
    /\ callRet = NoRet
    /\ argv = args
    /\ repo = repository
    /\ disk = packagesDir
    /\ unwritable = readOnly
    /\ fs = << >>
    /\ pc = "start"
    /\ frame = NoFrame
    /\ exitCode = -1
    /\ trace = << >>
    /\ written = {}
    /\ runNo = 1
    /\ rerun = FALSE
    /\ changed = FALSE
    /\ fsBefore = << >>
    /\ writtenBefore = {}
    /\ writeLog = {}
    /\ NoReact

\* the changeset files of PR 7 for the packages of DiskA
PackageFiles ==
    {changesetFilename(Arg.seven, DiskA[i].name) : i \in {j \in DOMAIN DiskA : DiskA[j].hasPackageJson}}

\* any of the changeset files may be unwritable (permission, disk, missing directory)
InitWriteFault ==
    \E list \in RepoCommitLists, readOnly \in SUBSET PackageFiles :
        InitRun(<<Arg.url, Arg.src, Arg.tgt>>, WorkingRepo(list), DiskA, readOnly)

SpecWriteFault == InitWriteFault /\ [][Next]_vars

\* the merge-base may not exist (unrelated histories, shallow clone, unknown ref), and
\* then the log of the range may fail as well; the target is given or looked up
InitMergeBase ==
    \E args \in {<<Arg.url, Arg.src, Arg.tgt>>, <<Arg.url, Arg.src>>}, list \in RepoCommitLists,
       mergeBaseOk \in BOOLEAN, logOk \in BOOLEAN :
        InitRun(args,
                [WorkingRepo(list) EXCEPT !.mergeBaseOk = mergeBaseOk, !.logOk = logOk],
                DiskA, {})

SpecMergeBase == InitMergeBase /\ [][Next]_vars

ORIGIN_DEV == <<"o","r","i","g","i","n","/","d","e","v">>

\* what `git rev-parse --abbrev-ref --symbolic-full-name <branch>@{upstream}` may answer:
\* a failure, an empty output, the name of the upstream
UpstreamAnswers ==
    {[ok |-> FALSE, out |-> NullStr], [ok |-> TRUE, out |-> NullStr],
     [ok |-> TRUE, out |-> ORIGIN_DEV \o <<"\n">>]}

\* the target is given or not, the source branch has an upstream or not, and any of
\* the four candidates may exist; the range holds one commit
InitTarget ==
    \E args \in {<<Arg.url, Arg.src, Arg.rel>>, <<Arg.url, Arg.src>>}, list \in {<<K_uiFeat>>},
       answer \in UpstreamAnswers, refs \in SUBSET {candidates[k] : k \in DOMAIN candidates} :
        InitRun(args,
                [WorkingRepo(list) EXCEPT !.upstreamOk = answer.ok, !.upstream = answer.out,
                                          !.refs = refs],
                DiskA, {})

SpecTarget == InitTarget /\ [][Next]_vars


\* the argument lists: complete ones with the URL first, in the middle, last or absent,
\* an empty target, and lists without a source branch or without a PR number
ArgvAll ==
    ArgvPool \cup
    {<<Arg.src, Arg.url, Arg.tgt, Arg.nine>>, <<Arg.urlUpper, Arg.src>>, <<Arg.src, NullStr, Arg.seven>>,
     <<Arg.url, Arg.src, Arg.tgt, Arg.seven>>,
     <<Arg.src, Arg.tgt, Arg.urlSlash>>, <<Arg.src, Arg.tgt>>, << >>, <<Arg.url>>}

\* packages/ holds only a directory without package.json
DiskNoManifest == <<[directory |-> Dir.docs, hasPackageJson |-> FALSE, name |-> NullStr]>>

\* any argument list, and packages/ with packages, without any, or missing
InitArgs ==
    \E args \in ArgvAll, list \in {<< >>, <<K_both>>}, packagesDir \in {DiskA, DiskNoManifest, << >>} :
        InitRun(args, WorkingRepo(list), packagesDir, {})

SpecArgs == InitArgs /\ [][Next]_vars

\* a scoped package and a package without scope whose name is the scoped name with
\* '-' in place of '/': '@sg/ui' in packages/ui and 'sg-ui' in packages/sg-ui
DiskTwins ==
    <<[directory |-> Dir.sgUi, hasPackageJson |-> TRUE, name |-> Name.plain],
      [directory |-> Dir.ui, hasPackageJson |-> TRUE, name |-> Name.scopedUi]>>

\* the range may hold a commit that changed a file of each of the two packages
InitTwins ==
    \E args \in ArgvPool,
       list \in {<< >>, <<K_uiFeat>>,
                 <<[hash |-> Hashes[6], subject |-> Subject.fix, files |-> <<File.uiB, File.sgUiA>>]>>} :
        InitRun(args, WorkingRepo(list), DiskTwins, {})

SpecTwins == InitTwins /\ [][Next]_vars

\* `git show` may fail for one of the commits
InitShowFault ==
    \E list \in RepoCommitLists,
       failing \in {{}} \cup {{c.hash} : c \in {K_uiFeat, K_coreBang, K_utilsFix, K_both}} :
        InitRun(<<Arg.url, Arg.src, Arg.tgt>>, [WorkingRepo(list) EXCEPT !.showFails = failing], DiskA, {})

SpecShowFault == InitShowFault /\ [][Next]_vars

-----------------------------------------------------------------------------
(* main in the job of the pull request workflow *)

\* between two runs the source branch is rewritten without its most recent commit
\* and pushed with force
ForcePush ==
    /\ pc \in {"done", "exited"}
    /\ runNo < MaxRuns
    /\ Len(repo.commits) > 0
    /\ repo' = [repo EXCEPT !.commits = Tail(@)]
    /\ changed' = TRUE
    /\ UNCHANGED <<callVars, argv, disk, unwritable, fs, runVars, runNo, rerun, fsBefore,
                   writtenBefore, writeLog>>

\* `auto-pr-${number}-*.md`
matchesCleanUp(filename, number) ==
    /\ startsWith(filename, AUTO_PR \o number \o <<"-">>)
    /\ Len(filename) >= Len(AUTO_PR \o number \o <<"-">> \o DOT_MD)
    /\ SubSeq(filename, Len(filename) - Len(DOT_MD) + 1, Len(filename)) = DOT_MD

\* the job without its clean-up step
StartJob_keepFiles ==
    /\ pc \in {"done", "exited"}
    /\ runNo < MaxRuns
    /\ Len(argv) = 4
    /\ pc' = "start"
    /\ frame' = NoFrame
    /\ exitCode' = -1
    /\ trace' = <<[op |-> "rm", arg |-> AUTO_PR \o argv[4] \o <<"-", "*">> \o DOT_MD]>>
    /\ written' = {}
    /\ runNo' = runNo + 1
    /\ rerun' = ~changed
    /\ changed' = FALSE
    /\ fs' = fs
    /\ fsBefore' = fs'
    /\ writtenBefore' = written
    /\ UNCHANGED <<callVars, envVars, writeLog>>

\* the job of the workflow: `rm -f .changeset/auto-pr-<number>-*.md`, then the script
\* with the URL, the head branch, the base branch and the number of the pull request
StartJob ==
    /\ pc \in {"done", "exited"}
    /\ runNo < MaxRuns
    /\ Len(argv) = 4
    /\ pc' = "start"
    /\ frame' = NoFrame
    /\ exitCode' = -1
    /\ trace' = <<[op |-> "rm", arg |-> AUTO_PR \o argv[4] \o <<"-", "*">> \o DOT_MD]>>
    /\ written' = {}
    /\ runNo' = runNo + 1
    /\ rerun' = ~changed
    /\ changed' = FALSE
    /\ fs' = [f \in {g \in DOMAIN fs : ~matchesCleanUp(g, argv[4])} |-> fs[f]]
    /\ fsBefore' = fs'
    /\ writtenBefore' = written
    /\ UNCHANGED <<callVars, envVars, writeLog>>

NextPR == Next \/ ForcePush \/ StartJob

\* the first run for a pull request, with the arguments the workflow gives
InitPR ==
    \E list \in RepoCommitLists :
        InitRun(<<Arg.url, Arg.src, Arg.tgt, Arg.seven>>, WorkingRepo(list), DiskA, {})

SpecPR == InitPR /\ [][NextPR]_vars

-----------------------------------------------------------------------------
(* JavaScript values *)

\* a value: its kind and, for an object or a symbol, its identity (0 for 0 and '')
Value(kind, id) == [kind |-> kind, id |-> id]

Undefined == Value("undefined", 0)
JsNull == Value("null", 0)

\* typeof value
typeof(value) == IF value.kind = "null" THEN "object" ELSE value.kind

\* !!value
truthy(value) ==
    \/ value.kind \in {"object", "function", "symbol"}
    \/ value.kind \in {"number", "string"} /\ value.id # 0

\* value === null || value === undefined
nullish(value) == value.kind \in {"null", "undefined"}

-----------------------------------------------------------------------------
(* useInstance, in one component *)

\* what the init functions return: a new object at each call, a string, a number, a
\* function, null
InitKinds == {"object", "string", "number", "function", "null"}

\* init(), when `allocated` objects were made before
initResult(init, allocated) ==
    IF init = "object" THEN Value("object", allocated + 1)
    ELSE IF init = "null" THEN JsNull
    ELSE Value(init, 1)

\* init is called at every render, whatever the ref holds
useInstance_alwaysInit(current, init, allocated) ==
    LET value == initResult(init, allocated)
    IN  IF typeof(value) # "object" \/ value = JsNull
        THEN [threw |-> TRUE, called |-> TRUE, current |-> current, instance |-> Undefined]
        ELSE [threw |-> FALSE, called |-> TRUE, current |-> value, instance |-> value]

\* lines 65-71 and 80: the body of the hook, on what instanceRef.current holds
useInstance(current, init, allocated) ==
    IF ~truthy(current)
    THEN LET value == initResult(init, allocated)
         IN  IF typeof(value) # "object" \/ value = JsNull
             THEN [threw |-> TRUE, called |-> TRUE, current |-> current, instance |-> Undefined]
             ELSE [threw |-> FALSE, called |-> TRUE, current |-> value, instance |-> value]
    ELSE [threw |-> FALSE, called |-> FALSE, current |-> current, instance |-> current]

\* the component is about to be rendered for the first time
InitUseInstance ==
    /\ callArgs = [packageName |-> NullStr, commits |-> << >>, prUrl |-> NullStr,
                   prNumber |-> NullStr]
    /\ callRet = NoRet
    /\ NoRun
    /\ \E init \in InitKinds : component = [NoComponent EXCEPT !.init = init]
    /\ consumer = NoConsumer

\* a render of the component: React hands the hook its cells (useState(0) and useRef()
\* at the first render, the kept ones afterwards, with the queued updates applied);
\* a render that throws unmounts the component
Render ==
    /\ component.init # "none"
    /\ ~component.crashed
    /\ Len(component.returned) < MaxRenders
    /\ LET cells == IF component.alive THEN component.cells
                    ELSE [state |-> 0, ref |-> Undefined]
           out == useInstance(cells.ref, component.init, component.allocated)
       IN  component' = [component EXCEPT
                            !.alive = ~out.threw,
                            !.crashed = out.threw,
                            !.cells = [state |-> cells.state + component.queue, ref |-> out.current],
                            !.queue = 0,
                            !.initCalls = @ + (IF out.called THEN 1 ELSE 0),
                            !.allocated = @ + (IF out.called /\ component.init = "object" THEN 1 ELSE 0),
                            !.returned = IF out.threw THEN @ ELSE Append(@, out.instance)]
    /\ UNCHANGED <<callArgs, callRet, consumer, envVars, fs, runVars, historyVars>>

\* lines 73-78: trigger(updater?): the updater changes the instance in place, then
\* forceUpdate(prev => prev + 1) queues a state update, which requests a render
Trigger ==
    /\ component.alive
    /\ component.triggers < MaxTriggers
    /\ \E withUpdater \in BOOLEAN :
           component' = [component EXCEPT !.count = IF withUpdater THEN @ + 1 ELSE @,
                                          !.queue = @ + 1,
                                          !.triggers = @ + 1]
    /\ UNCHANGED <<callArgs, callRet, consumer, envVars, fs, runVars, historyVars>>

NextUseInstance == Render \/ Trigger

SpecUseInstance == InitUseInstance /\ [][NextUseInstance]_vars

-----------------------------------------------------------------------------
(* useSignal, in one component *)

\* the names the component assigns to
SignalProps == {"count", "label"}

\* the values the component assigns: 0, 1, NaN (the number -1 stands for it) and
\* undefined
SignalValues == {Value("number", 0), Value("number", 1), Value("number", -1), Undefined}

\* a === b: NaN is not equal to itself
strictEquals(a, b) == a = b /\ a # Value("number", -1)

\* the properties of the object init() returns; an absent property reads undefined
initialObject == [p \in SignalProps |-> IF p = "count" THEN Value("number", 0) ELSE Undefined]

\* no Proxy made yet
NoProxy == [id |-> 0, target |-> Undefined]

\* the 'set' trap without its test: every assignment writes and forces a render
proxySet_alwaysUpdate(target, prop, value) ==
    [target |-> [target EXCEPT ![prop] = value], forceUpdate |-> 1]

\* lines 71-79: the 'set' trap, on the properties of the target
proxySet(target, prop, value) ==
    IF strictEquals(target[prop], value)
    THEN [target |-> target, forceUpdate |-> 0]
    ELSE [target |-> [target EXCEPT ![prop] = value], forceUpdate |-> 1]

\* lines 60-87: the body of the hook, on what stateRef.current and the cell of useMemo
\* hold; new Proxy(target, handler) throws a TypeError unless target is an object or
\* a function
useSignal(current, memo, init, allocated, proxies) ==
    LET called == current = JsNull
        currentState == IF called THEN initResult(init, allocated) ELSE current
    IN  IF memo # NoProxy
        THEN [threw |-> FALSE, called |-> called, current |-> currentState, memo |-> memo]
        ELSE IF currentState.kind \in {"object", "function"}
        THEN [threw |-> FALSE, called |-> called, current |-> currentState,
              memo |-> [id |-> proxies + 1, target |-> currentState]]
        ELSE [threw |-> TRUE, called |-> called, current |-> currentState, memo |-> NoProxy]

\* the component is about to be rendered for the first time
InitUseSignal ==
    /\ callArgs = [packageName |-> NullStr, commits |-> << >>, prUrl |-> NullStr,
                   prNumber |-> NullStr]
    /\ callRet = NoRet
    /\ NoRun
    /\ \E init \in InitKinds :
           component = [init |-> init, alive |-> FALSE, crashed |-> FALSE,
                        cells |-> [state |-> 0, ref |-> JsNull, memo |-> NoProxy],
                        queue |-> 0, initCalls |-> 0, allocated |-> 0, proxies |-> 0,
                        heap |-> << >>, returned |-> << >>, log |-> << >>]
    /\ consumer = NoConsumer

\* a render of the component: React hands the hook its cells (useState(0), useRef(null)
\* and the empty cell of useMemo at the first render, the kept ones afterwards, with
\* the queued updates applied); a render that throws unmounts the component
RenderSignal ==
    /\ ~component.crashed
    /\ Len(component.returned) < MaxRenders
    /\ LET cells == IF component.alive THEN component.cells
                    ELSE [state |-> 0, ref |-> JsNull, memo |-> NoProxy]
           out == useSignal(cells.ref, cells.memo, component.init, component.allocated,
                            component.proxies)
           made == out.called /\ component.init = "object"
       IN  component' = [component EXCEPT
                            !.alive = ~out.threw,
                            !.crashed = out.threw,
                            !.cells = [state |-> cells.state + component.queue,
                                       ref |-> out.current, memo |-> out.memo],
                            !.queue = 0,
                            !.initCalls = @ + (IF out.called THEN 1 ELSE 0),
                            !.allocated = @ + (IF made THEN 1 ELSE 0),
                            !.heap = IF made THEN Append(@, initialObject) ELSE @,
                            !.proxies = @ + (IF out.memo # cells.memo THEN 1 ELSE 0),
                            !.returned = IF out.threw THEN @ ELSE Append(@, out.memo)]
    /\ UNCHANGED <<callArgs, callRet, consumer, envVars, fs, runVars, historyVars>>

\* `signal.prop = value` on the object the last render returned: the 'set' trap runs on
\* the target of the Proxy, and forceUpdate(c => c + 1) queues a state update
Assign ==
    /\ component.alive
    /\ component.init = "object"
    /\ Len(component.log) < MaxAssigns
    /\ \E prop \in SignalProps, value \in SignalValues :
           LET proxy == component.returned[Len(component.returned)]
               before == component.heap[proxy.target.id]
               out == proxySet(before, prop, value)
           IN  component' = [component EXCEPT
                                !.heap[proxy.target.id] = out.target,
                                !.queue = @ + out.forceUpdate,
                                !.log = Append(@, [prop |-> prop, value |-> value,
                                                   before |-> before, after |-> out.target,
                                                   requests |-> out.forceUpdate])]
    /\ UNCHANGED <<callArgs, callRet, consumer, envVars, fs, runVars, historyVars>>

NextUseSignal == RenderSignal \/ Assign

SpecUseSignal == InitUseSignal /\ [][NextUseSignal]_vars

-----------------------------------------------------------------------------
(* createSafeContext, and a component that calls the hook it returns *)

\* const nullSymbol = Symbol('Null'); the n-th Symbol('Null') made later is symbol n
nullSymbol == Value("symbol", 0)

\* the message of the error
MUST_BE_WITHIN == "Context must be used within its Provider"

\* the contexts: each call of createSafeContext makes one
Contexts == {1, 2}

\* the values given to a Provider: two objects, 0, null, undefined
ProvidedValues == {Value("object", 1), Value("object", 2), Value("number", 0), JsNull, Undefined}

\* the Providers above the consumer, outermost first, at most MaxDepth of them
AncestorLists ==
    UNION {[1..n -> [context : Contexts, value : ProvidedValues]] : n \in 0..MaxDepth}

\* React's useContext(context): the value of the nearest Provider of the context above
\* the caller, the default value of createContext when there is none
useContext(context, ancestors, defaultValue) ==
    LET own == {i \in DOMAIN ancestors : ancestors[i].context = context}
    IN  IF own = {} THEN defaultValue ELSE ancestors[SetMax(own)].value

\* lines 9-18: useSafeContext, when `symbols` symbols were made after nullSymbol
useSafeContext(context, ancestors, symbols) ==
    LET read == useContext(context, ancestors, nullSymbol)
        contextValue == IF nullish(read) THEN Value("symbol", symbols + 1) ELSE read
    IN  IF contextValue = nullSymbol
        THEN [threw |-> TRUE, message |-> MUST_BE_WITHIN, value |-> Undefined]
        ELSE [threw |-> FALSE, message |-> "", value |-> contextValue]

\* a consumer of one of the contexts, under any Providers
InitSafeContext ==
    /\ callArgs = [packageName |-> NullStr, commits |-> << >>, prUrl |-> NullStr,
                   prNumber |-> NullStr]
    /\ callRet = NoRet
    /\ NoRun
    /\ component = NoComponent
    /\ \E hook \in Contexts, ancestors \in AncestorLists :
           consumer = [NoConsumer EXCEPT !.hook = hook, !.ancestors = ancestors]

\* the consumer renders and calls the hook
CallUseSafeContext ==
    /\ consumer.hook # 0
    /\ ~consumer.done
    /\ LET read == useContext(consumer.hook, consumer.ancestors, nullSymbol)
       IN  consumer' = [consumer EXCEPT
                           !.done = TRUE,
                           !.symbols = @ + (IF nullish(read) THEN 1 ELSE 0),
                           !.result = useSafeContext(consumer.hook, consumer.ancestors,
                                                     consumer.symbols)]
    /\ UNCHANGED <<callArgs, callRet, component, envVars, fs, runVars, historyVars>>

NextSafeContext == CallUseSafeContext

SpecSafeContext == InitSafeContext /\ [][NextSafeContext]_vars

-----------------------------------------------------------------------------
(* Vocabulary of the claims *)

\* the type tokens in the order the claims list them, with the category of each
ClaimTypeTokens == <<FEAT, FIX, REFACTOR, PERF, DOCS, CHORE>>
ClaimCategoryOf == <<"features", "bugFixes", "refactoring", "performance", "documentation", "chores">>
MatchedCategories == {ClaimCategoryOf[k] : k \in DOMAIN ClaimCategoryOf}
AllCategories == MatchedCategories \cup {"others"}

ContainsBreakingMarker(subject) ==
    includes(subject, BREAKING_CHANGE) \/ includes(subject, BANG_COLON)

\* the subject as the prefix tests see it
Tested(subject) == toLowerCase(trim(subject))

\* the category the ordered prefix test selects for a subject: first match wins
ExpectedCategory(subject) ==
    IF \E k \in DOMAIN ClaimTypeTokens : startsWith(Tested(subject), ClaimTypeTokens[k])
    THEN ClaimCategoryOf[SetMin({k \in DOMAIN ClaimTypeTokens :
                                    startsWith(Tested(subject), ClaimTypeTokens[k])})]
    ELSE "others"

endsWith(s, p) == Len(s) >= Len(p) /\ SubSeq(s, Len(s) - Len(p) + 1, Len(s)) = p

\* ' (<first 7 characters of the hash>)'
HashSuffix(commit) == <<" ", "(">> \o substring0(commit.hash, 7) \o <<")">>

\* the positions in category c of the items that carry the commit's hash
ItemsOf(categories, c, commit) ==
    {j \in DOMAIN categories[c] : endsWith(categories[c][j], HashSuffix(commit))}

\* the commit has exactly one item, and it is in category c with the given text
PlacedAs(categories, commit, c, text) ==
    /\ \A d \in AllCategories : Cardinality(ItemsOf(categories, d, commit)) = (IF d = c THEN 1 ELSE 0)
    /\ \A j \in ItemsOf(categories, c, commit) : categories[c][j] = text \o HashSuffix(commit)

\* the commit has exactly one item, and it is in category c
PlacedIn(categories, commit, c) ==
    \A d \in AllCategories : Cardinality(ItemsOf(categories, d, commit)) = (IF d = c THEN 1 ELSE 0)

RECURSIVE SumLen(_, _)
SumLen(categories, cs) ==
    IF cs = {} THEN 0
    ELSE LET c == CHOOSE c \in cs : TRUE
         IN  Len(categories[c]) + SumLen(categories, cs \ {c})

\* a type token immediately followed by '!:' opens the subject
BangSubject(subject) ==
    \E k \in DOMAIN ClaimTypeTokens : startsWith(subject, ClaimTypeTokens[k] \o BANG_COLON)

BangCategory(subject) ==
    ClaimCategoryOf[CHOOSE k \in DOMAIN ClaimTypeTokens :
                        startsWith(subject, ClaimTypeTokens[k] \o BANG_COLON)]

\* the description of a conventional-commit subject: what follows its 'type...:' prefix
Description(subject) ==
    LET colons == {i \in 1..Len(subject) : subject[i] = ":"}
    IN  IF colons = {} THEN subject
        ELSE trimStart(SubSeq(subject, SetMin(colons) + 1, Len(subject)))

-----------------------------------------------------------------------------
(* Claims on determineVersionType and categorizeCommits *)

\* C1: a non-empty commit set with at least one subject containing 'BREAKING CHANGE'
\* or '!:' has bump major, whatever the other subjects and wherever that commit is.
C1_BreakingIsMajor ==
    (callRet.done /\ \E i \in DOMAIN callArgs.commits :
                         ContainsBreakingMarker(callArgs.commits[i].message))
        => callRet.versionType = "major"

\* a feat commit first, the marked commit second (and not a type-prefixed one)
C1_Witness ==
    /\ callRet.done
    /\ Len(callArgs.commits) = 2
    /\ callArgs.commits[1].message = Subject.feat
    /\ callArgs.commits[2].message = Subject.midBang
    /\ callRet.versionType = "major"

\* C2: a non-empty commit set without breaking marker has bump minor exactly when a
\* subject, trimmed and lower-cased, starts with 'feat', and patch otherwise; the bump
\* is always one of major, minor, patch.
C2_MinorIffFeat ==
    callRet.done =>
        /\ callRet.versionType \in {"major", "minor", "patch"}
        /\ (/\ Len(callArgs.commits) > 0
            /\ \A i \in DOMAIN callArgs.commits :
                   ~ContainsBreakingMarker(callArgs.commits[i].message))
           => /\ callRet.versionType = "minor"
                 <=> \E i \in DOMAIN callArgs.commits :
                         startsWith(Tested(callArgs.commits[i].message), FEAT)
              /\ callRet.versionType # "minor" => callRet.versionType = "patch"

\* a padded upper-case FEAT subject beside a fix: minor
C2_Witness ==
    /\ callRet.done
    /\ Len(callArgs.commits) = 2
    /\ callArgs.commits[1].message = Subject.fix
    /\ callArgs.commits[2].message = Subject.FEATpad
    /\ callRet.versionType = "minor"

\* C3 as stated: a commit whose subject is '<type>!...' is in 'others', verbatim, and
\* the bump is major.
C3_BangInOthers ==
    callRet.done =>
        \A i \in DOMAIN callArgs.commits :
            BangSubject(callArgs.commits[i].message)
                => /\ PlacedAs(callRet.categories, callArgs.commits[i], "others",
                               callArgs.commits[i].message)
                   /\ callRet.versionType = "major"

\* C3 amended: a commit whose subject opens with '<type>!:' is in the category of its
\* type token, its item the trimmed subject with nothing removed, and the bump is major.
C3_BangInTypeCategory ==
    callRet.done =>
        \A i \in DOMAIN callArgs.commits :
            BangSubject(callArgs.commits[i].message)
                => /\ PlacedAs(callRet.categories, callArgs.commits[i],
                               BangCategory(callArgs.commits[i].message),
                               trim(callArgs.commits[i].message))
                   /\ callRet.versionType = "major"

C3_Witness ==
    /\ callRet.done
    /\ Len(callArgs.commits) = 1
    /\ callArgs.commits[1].message = Subject.fixBang
    /\ Len(callRet.categories["bugFixes"]) = 1
    /\ Len(callRet.categories["others"]) = 0

\* C4 as stated: every commit is in exactly one category, the one the ordered prefix
\* test selects; an unmatched subject is in 'others' with its text unchanged; the
\* categories hold as many items as there are commits.
C4_OneCategoryOthersUnchanged ==
    callRet.done =>
        /\ \A i \in DOMAIN callArgs.commits :
               LET commit == callArgs.commits[i]
               IN  /\ PlacedIn(callRet.categories, commit, ExpectedCategory(commit.message))
                   /\ ExpectedCategory(commit.message) = "others"
                          => PlacedAs(callRet.categories, commit, "others", commit.message)
        /\ SumLen(callRet.categories, AllCategories) = Len(callArgs.commits)

\* C4 amended: the same, the unmatched subject's item being its trimmed text with no
\* prefix removed.
C4_OneCategoryOthersTrimmed ==
    callRet.done =>
        /\ \A i \in DOMAIN callArgs.commits :
               LET commit == callArgs.commits[i]
               IN  /\ PlacedIn(callRet.categories, commit, ExpectedCategory(commit.message))
                   /\ ExpectedCategory(commit.message) = "others"
                          => PlacedAs(callRet.categories, commit, "others", trim(commit.message))
        /\ SumLen(callRet.categories, AllCategories) = Len(callArgs.commits)

\* an unmatched padded subject and an upper-case fix, each in its category
C4_Witness ==
    /\ callRet.done
    /\ Len(callArgs.commits) = 2
    /\ callArgs.commits[1].message = Subject.wip
    /\ callArgs.commits[2].message = Subject.FixUpper
    /\ Len(callRet.categories["others"]) = 1
    /\ Len(callRet.categories["bugFixes"]) = 1

\* C5 as stated: the item of every commit in a matched category is its description
\* (the subject without its type prefix, scoped and decorated forms included)
\* followed by ' (<hash7>)'.
C5_PrefixAlwaysRemoved ==
    callRet.done =>
        \A i \in DOMAIN callArgs.commits :
            LET commit == callArgs.commits[i]
            IN  ExpectedCategory(commit.message) \in MatchedCategories
                    => PlacedAs(callRet.categories, commit, ExpectedCategory(commit.message),
                                Description(trim(commit.message)))

\* C10 as stated: the sanitized package name has no '@' and no '/'.
C10_SafeNameHasNoAtNoSlash ==
    callRet.done =>
        \A i \in DOMAIN callRet.safePackageName : callRet.safePackageName[i] \notin {"@", "/"}

-----------------------------------------------------------------------------
(* Claims on attribution and on the written files *)

\* text begins with prefix, character by character
HasPrefix(text, prefix) ==
    /\ Len(text) >= Len(prefix)
    /\ \A i \in 1..Len(prefix) : text[i] = prefix[i]

SeqToSet(q) == {q[i] : i \in DOMAIN q}

\* the root path of a package followed by the separator
RootSlash(pkg) == PACKAGES_SLASH \o pkg.directory \o <<"/">>

\* the commits of the range main loaded in this run
LoadedCommits ==
    {c \in SeqToSet(repo.commits) :
        \E i \in DOMAIN frame.commits : HasPrefix(frame.commits[i], c.hash \o <<" ">>)}

\* the entries recorded under a package so far
EntriesOf(pkg) ==
    IF pkg.name \in DOMAIN frame.packageCommits.at
    THEN SeqToSet(frame.packageCommits.at[pkg.name])
    ELSE {}

\* C6: every entry recorded under a package P has a non-empty file list, a subset of
\* its commit's changed files, each file beginning with P's root path and '/'; no file
\* of a sibling directory whose name extends P's is recorded under P.
C6_PathPrefix ==
    \A k \in DOMAIN frame.packages :
        \A entry \in EntriesOf(frame.packages[k]) :
            /\ Len(entry.files) > 0
            /\ \E c \in SeqToSet(repo.commits) :
                   c.hash = entry.hash /\ SeqToSet(entry.files) \subseteq SeqToSet(c.files)
            /\ \A f \in SeqToSet(entry.files) :
                   /\ HasPrefix(f, RootSlash(frame.packages[k]))
                   /\ \A j \in DOMAIN frame.packages :
                          (j # k /\ HasPrefix(frame.packages[j].directory, frame.packages[k].directory))
                              => ~HasPrefix(f, RootSlash(frame.packages[j]))

\* core holds the commit that touched packages/core/ and README.md, with the two core
\* files only, and not the commit that touched packages/core-utils/
C6_Witness ==
    /\ pc = "write"
    /\ Len(frame.commits) = 2
    /\ \E i \in DOMAIN frame.commits : commitHashOf(frame.commits[i]) = K_utilsFix.hash
    /\ Name.core \in DOMAIN frame.packageCommits.at
    /\ Len(frame.packageCommits.at[Name.core]) = 1
    /\ frame.packageCommits.at[Name.core][1].hash = K_coreBang.hash
    /\ frame.packageCommits.at[Name.core][1].files = <<File.coreX, File.coreZ>>

\* all the changed files of the commit lie outside every package
OutsideEveryPackage(c) ==
    \A f \in SeqToSet(c.files) :
        \A k \in DOMAIN frame.packages : ~HasPrefix(f, RootSlash(frame.packages[k]))

-----------------------------------------------------------------------------
(* Claims on the failures main recovers from, and on those it does not *)

\* the file main names for a package of this run
FileOf(packageName) == changesetFilename(frame.prNumber, packageName)

\* the run wrote its closing line
Reported == pc = "done" /\ frame.reported # -1

\* the arguments give no source branch, or no PR number
ArgumentsMissing ==
    orNull(nonUrlArgs(argv), 0) = NullStr \/ parsePrNumber(argv) = NullStr

\* no directory of packages/ holds a package.json
NoPackageOnDisk == \A i \in DOMAIN disk : ~disk[i].hasPackageJson

\* C11: a failing write of one package's file is caught: the process exits with status
\* 1 only for missing arguments or for no package, never for the write; the run goes
\* through every affected package, and every package whose file is writable has its
\* file with the document rendered for it, before and after the failing one.
C11_WriteFailureIsCaught ==
    /\ exitCode = 1 => (ArgumentsMissing \/ NoPackageOnDisk)
    /\ Reported =>
           /\ exitCode = 0
           /\ frame.k = Len(frame.packageCommits.keys) + 1
           /\ \A j \in DOMAIN frame.packageCommits.keys :
                  LET name == frame.packageCommits.keys[j]
                  IN  FileOf(name) \notin unwritable =>
                          /\ FileOf(name) \in written
                          /\ FileOf(name) \in DOMAIN fs
                          /\ fs[FileOf(name)] = generateChangeset(name, frame.packageCommits.at[name],
                                                                  frame.prUrl)

\* three packages are affected, the write of the second failed, the first and the
\* third have their files, and the run ended with status 0
C11_Witness ==
    /\ Reported
    /\ exitCode = 0
    /\ Len(frame.packageCommits.keys) = 3
    /\ FileOf(frame.packageCommits.keys[2]) \in unwritable
    /\ FileOf(frame.packageCommits.keys[2]) \notin DOMAIN fs
    /\ FileOf(frame.packageCommits.keys[1]) \in written
    /\ FileOf(frame.packageCommits.keys[3]) \in written

\* C12 as stated: when writes failed, the closing report does not count the packages
\* whose write failed as generated: the number it gives is the number of files written.
C12_ReportCountsWrittenOnly ==
    Reported =>
        frame.reported = Cardinality({j \in DOMAIN frame.packageCommits.keys :
                                         FileOf(frame.packageCommits.keys[j]) \notin unwritable})

\* the arguments of the queries of one kind this run made, in order
Queries(op) ==
    LET events == SelectSeq(trace, LAMBDA e : e.op = op)
    IN  [i \in DOMAIN events |-> events[i].arg]

\* the range main asked the log of
RangeOf(lower, upper) == lower \o <<".", ".">> \o upper

\* the packages some commit of the range changed a file of
AffectedNames ==
    {frame.packages[k].name : k \in {j \in DOMAIN frame.packages :
        \E c \in SeqToSet(repo.commits) :
            \E f \in SeqToSet(c.files) : HasPrefix(f, RootSlash(frame.packages[j]))}}

\* C13: when the merge-base query fails the lower bound of the range is the target
\* branch itself and the log is asked for '<targetBranch>..<sourceBranch>'; when it
\* succeeds the lower bound is the merge-base. Either way the run is not aborted:
\* it exits with 1 only for missing arguments or no package, and when the log answers
\* every commit is queried for its files and every affected package gets its file.
C13_MergeBaseFallback ==
    /\ pc \in {"packages", "load", "attribute", "write", "done"} =>
           /\ ~repo.mergeBaseOk => frame.mergeBase = frame.targetBranch
           /\ repo.mergeBaseOk => frame.mergeBase = BASE_SHA
    /\ pc \in {"attribute", "write", "done"} =>
           Queries("log") = <<RangeOf(IF repo.mergeBaseOk THEN BASE_SHA ELSE frame.targetBranch,
                                      frame.sourceBranch)>>
    /\ exitCode = 1 => (ArgumentsMissing \/ NoPackageOnDisk)
    /\ (pc = "done" /\ ~changed /\ repo.logOk) =>
           /\ exitCode = 0
           /\ Queries("show") = [i \in DOMAIN repo.commits |-> repo.commits[i].hash]
           /\ written = {FileOf(name) : name \in AffectedNames}

\* the merge-base query failed, the log was asked for 'origin/main..dev', and the run
\* ended with status 0 after writing a file
C13_Witness ==
    /\ pc = "done"
    /\ ~changed
    /\ ~repo.mergeBaseOk
    /\ frame.mergeBase = Arg.tgt
    /\ Queries("log") = <<Arg.tgt \o <<".", ".">> \o Arg.src>>
    /\ written # {}
    /\ exitCode = 0

\* the second positional argument, when there is one
ExplicitTarget == orNull(nonUrlArgs(argv), 1)

\* the upstream query succeeded and printed a name
UpstreamAnswered == repo.upstreamOk /\ \E i \in DOMAIN repo.upstream : ~IsWhitespace(repo.upstream[i])

\* the first of origin/main, main, origin/master, master that exists; origin/main if none
FirstCandidate ==
    IF ORIGIN_MAIN \in repo.refs THEN ORIGIN_MAIN
    ELSE IF MAIN \in repo.refs THEN MAIN
    ELSE IF ORIGIN_MASTER \in repo.refs THEN ORIGIN_MASTER
    ELSE IF MASTER \in repo.refs THEN MASTER
    ELSE ORIGIN_MAIN

\* C14: the target branch is the explicit argument when given, and then neither the
\* upstream nor a candidate is queried; else the upstream of the source branch when
\* that query succeeds with a non-empty answer; else the first existing one of
\* origin/main, main, origin/master, master; else origin/main.
C14_TargetPriority ==
    pc \in {"packages", "load", "attribute", "write", "done"} =>
        /\ ExplicitTarget # NullStr =>
               /\ frame.targetBranch = ExplicitTarget
               /\ Queries("rev-parse upstream") = << >>
               /\ Queries("rev-parse verify") = << >>
        /\ (ExplicitTarget = NullStr /\ UpstreamAnswered) =>
               /\ frame.targetBranch = trim(repo.upstream)
               /\ Queries("rev-parse verify") = << >>
        /\ (ExplicitTarget = NullStr /\ ~UpstreamAnswered) =>
               /\ frame.targetBranch = FirstCandidate
               /\ \A k \in DOMAIN candidates :
                      (candidates[k] \in repo.refs /\ frame.targetBranch # candidates[k])
                          => \E j \in 1..(k - 1) : candidates[j] = frame.targetBranch

\* no target is given, the upstream query fails, origin/master and master exist but
\* neither origin/main nor main: origin/master is the target, after three probes
C14_Witness ==
    /\ pc = "done"
    /\ ExplicitTarget = NullStr
    /\ ~repo.upstreamOk
    /\ repo.refs = {ORIGIN_MASTER, MASTER}
    /\ frame.targetBranch = ORIGIN_MASTER
    /\ Queries("rev-parse verify") = <<ORIGIN_MAIN, MAIN, ORIGIN_MASTER>>

\* C15: when the range holds no non-merge commit, the run makes no changed-file query,
\* never reaches attribution or writing, writes no file and leaves .changeset/ as it
\* was, and ends with status 0.
C15_EmptyRangeIsSuccess ==
    repo.commits = << >> =>
        /\ pc \notin {"attribute", "write"}
        /\ Queries("show") = << >>
        /\ written = {}
        /\ fs = fsBefore
        /\ exitCode = 1 => (ArgumentsMissing \/ NoPackageOnDisk)
        /\ pc = "done" => (exitCode = 0 /\ frame.commits = << >> /\ frame.reported = -1)

\* the log of an empty range was asked and the run ended with status 0
C15_Witness ==
    /\ repo.commits = << >>
    /\ pc = "done"
    /\ Len(Queries("log")) = 1
    /\ exitCode = 0
    /\ written = {}

\* the argument begins with http:// or https://, in any letter case
ClaimIsUrl(arg) == HasPrefix(toLowerCase(arg), HTTP) \/ HasPrefix(toLowerCase(arg), HTTPS)

\* the arguments that are not URLs, in order, and the n-th of them (empty when absent)
Positionals == SelectSeq(argv, LAMBDA arg : ~ClaimIsUrl(arg))
Slot(n) == IF n <= Len(Positionals) THEN Positionals[n] ELSE NullStr

\* the URL arguments, in order
Urls == SelectSeq(argv, ClaimIsUrl)

\* the text after the last '/' of a URL
AfterLastSlash(url) ==
    LET slashes == {i \in DOMAIN url : url[i] = "/"}
    IN  SubSeq(url, SetMax(slashes) + 1, Len(url))

\* the PR identifier the arguments give: the third positional one, else the tail of the URL
ClaimPrId ==
    IF Slot(3) # NullStr THEN Slot(3)
    ELSE IF Len(Urls) > 0 THEN AfterLastSlash(Urls[1])
    ELSE NullStr

AnsweredFor(pkg) ==
    SelectSeq(repo.commits,
              LAMBDA c : /\ c.hash \notin repo.showFails
                         /\ \E f \in SeqToSet(c.files) : HasPrefix(f, RootSlash(pkg)))

\* the entries recorded under the package, in order
RecordedFor(pkg) ==
    IF pkg.name \in DOMAIN frame.packageCommits.at THEN frame.packageCommits.at[pkg.name] ELSE << >>

\* C18: a commit whose changed-file query fails is recorded under no package; the run
\* is not aborted; and under every package the entries are those of the other commits
\* that changed it, each with the files it changed there, in the order of the log,
\* as without the failure.
C18_ShowFailureIsEmptyList ==
    /\ exitCode = 1 => (ArgumentsMissing \/ NoPackageOnDisk)
    /\ (pc \in {"write", "done"} /\ ~changed) =>
           \A k \in DOMAIN frame.packages :
               LET pkg == frame.packages[k]
               IN  /\ \A i \in DOMAIN RecordedFor(pkg) : RecordedFor(pkg)[i].hash \notin repo.showFails
                   /\ Len(RecordedFor(pkg)) = Len(AnsweredFor(pkg))
                   /\ \A i \in DOMAIN RecordedFor(pkg) :
                          /\ RecordedFor(pkg)[i].hash = AnsweredFor(pkg)[i].hash
                          /\ RecordedFor(pkg)[i].files =
                                 SelectSeq(AnsweredFor(pkg)[i].files,
                                           LAMBDA f : HasPrefix(f, RootSlash(pkg)))

\* the query failed for the commit that touched ui and core, the other commit touched
\* core-utils: the run ended with status 0 and wrote the file of core-utils only
C18_Witness ==
    /\ pc = "done"
    /\ ~changed
    /\ exitCode = 0
    /\ repo.showFails = {K_both.hash}
    /\ LoadedCommits = {K_both, K_utilsFix}
    /\ Queries("show") = [i \in DOMAIN repo.commits |-> repo.commits[i].hash]
    /\ written = {FileOf(Name.coreUtils)}

-----------------------------------------------------------------------------
(* Claims on the React hooks *)

\* C19: in a component whose init returns an object, init is called exactly once, at
\* the first render; every render returns the same instance, the one the ref holds;
\* and every call of trigger adds one state update (a render request, pending until
\* the next render applies it) without replacing the instance.
C19_OneInstance ==
    component.init = "object" =>
        /\ ~component.crashed
        /\ component.initCalls = (IF Len(component.returned) = 0 THEN 0 ELSE 1)
        /\ \A i \in DOMAIN component.returned :
               /\ component.returned[i].kind = "object"
               /\ component.returned[i] = component.returned[1]
        /\ component.alive => component.cells.ref = component.returned[1]
        /\ component.cells.state + component.queue = component.triggers

\* three renders and two calls of trigger, one of them pending, the instance changed
\* in place by an updater, and init called once
C19_Witness ==
    /\ component.init = "object"
    /\ Len(component.returned) >= 3
    /\ component.triggers >= 2
    /\ component.queue >= 1
    /\ component.count >= 1
    /\ component.initCalls = 1

\* the Providers of the consumer's own context above it
OwnProviders == {i \in DOMAIN consumer.ancestors : consumer.ancestors[i].context = consumer.hook}

\* C20 as stated: the hook throws 'Context must be used within its Provider' when no
\* Provider of its context encloses the caller, and otherwise returns exactly the
\* value given to the nearest enclosing Provider.
C20_ThrowsOrNearestValue ==
    consumer.done =>
        IF OwnProviders = {}
        THEN consumer.result.threw /\ consumer.result.message = MUST_BE_WITHIN
        ELSE /\ ~consumer.result.threw
             /\ consumer.result.value = consumer.ancestors[SetMax(OwnProviders)].value

-----------------------------------------------------------------------------
(* Claims on attribution, rendering and the order of a run *)

\* the number of entries of a commit under a package
TimesRecorded(pkg, c) ==
    Cardinality({i \in DOMAIN RecordedFor(pkg) : RecordedFor(pkg)[i].hash = c.hash})

\* the commit changed a file under the root of the package
Touches(c, pkg) == \E f \in SeqToSet(c.files) : HasPrefix(f, RootSlash(pkg))

\* C21: once attribution has finished, a commit of the range is recorded exactly once
\* under each package that has one of its changed files under the package root and
\* not at all under the others, so a commit touching k packages appears under exactly
\* those k; two commits with the same subject touching one package are two entries.
C21_OncePerMatchingPackage ==
    (pc = "write" /\ ~changed) =>
        \A k \in DOMAIN frame.packages : \A c \in SeqToSet(repo.commits) :
            TimesRecorded(frame.packages[k], c) = (IF Touches(c, frame.packages[k]) THEN 1 ELSE 0)

\* two commits with the subject 'feat: a' both changed packages/ui, one of them also
\* packages/core: ui holds two entries with the same message, core holds one
C21_Witness ==
    /\ pc = "write"
    /\ ~changed
    /\ LoadedCommits = {K_uiFeat, K_both}
    /\ Len(frame.packageCommits.at[Name.scopedUi]) = 2
    /\ frame.packageCommits.at[Name.scopedUi][1].message = frame.packageCommits.at[Name.scopedUi][2].message
    /\ frame.packageCommits.at[Name.scopedUi][1].hash # frame.packageCommits.at[Name.scopedUi][2].hash
    /\ Len(frame.packageCommits.at[Name.core]) = 1
    /\ Name.coreUtils \notin DOMAIN frame.packageCommits.at

\* the order the sections are displayed in
SectionOrder ==
    <<"features", "bugFixes", "refactoring", "performance", "documentation", "chores", "others">>

\* the positions of the document that hold the heading of a category
HeadingPositions(doc) ==
    {p \in DOMAIN doc : \E i \in DOMAIN SectionOrder : doc[p] = HeadingText[SectionOrder[i]]}

\* the position holds a whole heading line, '-   **<heading>**' and a line end
IsHeadingLine(doc, p) ==
    /\ p > 7 /\ p + 3 <= Len(doc)
    /\ SubSeq(doc, p - 6, p - 1) = <<"-", " ", " ", " ", "*", "*">>
    /\ SubSeq(doc, p + 1, p + 3) = <<"*", "*", "\n">>
    /\ doc[p - 7] = "\n"

\* the categories whose heading the document holds, in the order of the document
SectionsOf(doc) ==
    LET positions == HeadingPositions(doc)
        nth(i) == CHOOSE p \in positions : Cardinality({q \in positions : q < p}) = i - 1
    IN  [i \in 1..Cardinality(positions) |->
            SectionOrder[CHOOSE k \in DOMAIN SectionOrder : doc[nth(i)] = HeadingText[SectionOrder[k]]]]

\* C22: the headings of a rendered document are those of the categories that hold an
\* item, each once and as a line of its own, in the order features, bugFixes,
\* refactoring, performance, documentation, chores, others, whatever the order the
\* commits came in; a category without item has no heading.
C22_FixedSectionOrder ==
    callRet.done =>
        /\ SectionsOf(callRet.changeset) =
               SelectSeq(SectionOrder, LAMBDA c : Len(callRet.categories[c]) > 0)
        /\ \A p \in HeadingPositions(callRet.changeset) : IsHeadingLine(callRet.changeset, p)

\* a fix came before a feature: the document shows the features, then the fixes, and
\* no other heading
C22_Witness ==
    /\ callRet.done
    /\ Len(callArgs.commits) = 2
    /\ callArgs.commits[1].message = Subject.fix
    /\ callArgs.commits[2].message = Subject.feat
    /\ SectionsOf(callRet.changeset) = <<"features", "bugFixes">>

\* the place of a commit in the list the log query returned
PlaceInLog(hash) ==
    CHOOSE n \in DOMAIN frame.commits : HasPrefix(frame.commits[n], hash \o <<" ">>)

\* the first position of the document where the text stands
PositionOf(doc, text) ==
    SetMin({p \in 1..(Len(doc) - Len(text) + 1) : SubSeq(doc, p, p + Len(text) - 1) = text})

\* the position of the item of an entry: the end of its line, ' (<hash>)' and a line end
ItemPosition(doc, entry) == PositionOf(doc, HashSuffix(entry) \o <<"\n">>)

\* no heading stands between the two positions
SameSection(doc, p, q) ==
    \A h \in HeadingPositions(doc) : ~(p < h /\ h < q) /\ ~(q < h /\ h < p)

\* C23: the list main loads is the log in its order, most recent first; the entries
\* under each package follow the order of that list; and in the document written for
\* a package two items of one category stand in that order too.
C23_OrderPreserved ==
    /\ (pc \in {"attribute", "write"} /\ ~changed) =>
           /\ Len(frame.commits) = Len(repo.commits)
           /\ \A n \in DOMAIN frame.commits : HasPrefix(frame.commits[n], repo.commits[n].hash \o <<" ">>)
    /\ pc \in {"attribute", "write"} =>
           \A k \in DOMAIN frame.packages :
               LET entries == RecordedFor(frame.packages[k])
                   doc == fs[FileOf(frame.packages[k].name)]
               IN  \A i, j \in DOMAIN entries :
                       i < j =>
                           /\ PlaceInLog(entries[i].hash) < PlaceInLog(entries[j].hash)
                           /\ (FileOf(frame.packages[k].name) \in written
                                 /\ SameSection(doc, ItemPosition(doc, entries[i]), ItemPosition(doc, entries[j])))
                              => ItemPosition(doc, entries[i]) < ItemPosition(doc, entries[j])

\* the log returned the commit touching ui and core before the one touching ui only,
\* both features: the document of ui lists them in that order under one heading
C23_Witness ==
    /\ pc = "write"
    /\ ~changed
    /\ [n \in DOMAIN repo.commits |-> repo.commits[n].hash] = <<K_both.hash, K_uiFeat.hash>>
    /\ FileOf(Name.scopedUi) \in written
    /\ SectionsOf(fs[FileOf(Name.scopedUi)]) = <<"features">>
    /\ ItemPosition(fs[FileOf(Name.scopedUi)], K_both) < ItemPosition(fs[FileOf(Name.scopedUi)], K_uiFeat)

\* the places of the trace where a command of the kind was run
At(ops) == {n \in DOMAIN trace : trace[n].op \in ops}

\* C24: in the trace of a run the range is resolved (every query for the target branch,
\* then the merge-base) before the one log query, whose range starts at the lower
\* bound main kept; every changed-file query comes after the log query; and a file is
\* written only after the changed files of every loaded commit were queried, one
\* query per commit in the order of the list, with attribution finished.
C24_StagesInSequence ==
    /\ Cardinality(At({"log"})) <= 1
    /\ \A l \in At({"log"}) :
           /\ At({"merge-base"}) # {}
           /\ \A r \in At({"rev-parse upstream", "rev-parse verify", "merge-base"}) : r < l
           /\ frame.targetBranch # NullStr
           /\ frame.mergeBase # NullStr
           /\ trace[l].arg = RangeOf(frame.mergeBase, frame.sourceBranch)
    /\ \A s \in At({"show"}) : \E l \in At({"log"}) : l < s
    /\ \A w \in At({"write", "write failed"}) :
           /\ \A s \in At({"show"}) : s < w
           /\ Queries("show") = [n \in DOMAIN frame.commits |-> commitHashOf(frame.commits[n])]
           /\ frame.i > Len(frame.commits)
           /\ \A name \in DOMAIN frame.packageCommits.at : Len(frame.packageCommits.at[name]) > 0

\* the target branch was looked up, two commits were loaded and queried, and the
\* first of two files has just been written
C24_Witness ==
    /\ pc = "write"
    /\ At({"rev-parse verify"}) # {}
    /\ Cardinality(At({"show"})) = 2
    /\ Cardinality(At({"write"})) = 1
    /\ Len(frame.packageCommits.keys) = 2
    /\ SetMax(At({"show"})) < SetMin(At({"write"}))

-----------------------------------------------------------------------------
(* Claims on useSignal *)

\* the two values are strictly equal: the same value, and not the NaN of a number
ClaimSame(a, b) == a = b /\ ~(a.kind = "number" /\ a.id = -1)

\* C25: in a component whose init returns an object, an assignment of a value strictly
\* equal to the property's value leaves the object as it was and requests no render;
\* an assignment of another value sets that property alone and requests one render
\* (a state update, pending until the next render applies it); init is called once,
\* at the first render, and every render returns the same Proxy, on the object the
\* ref holds.
C25_SignalAssignment ==
    component.init = "object" =>
        /\ ~component.crashed
        /\ component.initCalls = (IF Len(component.returned) = 0 THEN 0 ELSE 1)
        /\ \A i \in DOMAIN component.returned :
               /\ component.returned[i] = component.returned[1]
               /\ component.returned[i].target = component.cells.ref
               /\ component.returned[i].target.kind = "object"
        /\ Len(component.heap) = component.initCalls
        /\ \A n \in DOMAIN component.log :
               LET e == component.log[n]
               IN  IF ClaimSame(e.before[e.prop], e.value)
                   THEN e.after = e.before /\ e.requests = 0
                   ELSE e.after = [e.before EXCEPT ![e.prop] = e.value] /\ e.requests = 1
        /\ component.cells.state + component.queue =
               Cardinality({n \in DOMAIN component.log : component.log[n].requests = 1})

\* 0 was assigned to count, which held 0, then 1: one render was requested and is
\* applied by the third render, which returns the Proxy of the first
C25_Witness ==
    /\ component.init = "object"
    /\ Len(component.returned) >= 3
    /\ Len(component.log) = 2
    /\ component.log[1] = [prop |-> "count", value |-> Value("number", 0),
                           before |-> initialObject, after |-> initialObject, requests |-> 0]
    /\ component.log[2].value = Value("number", 1)
    /\ component.log[2].requests = 1
    /\ component.cells.state = 1
    /\ component.queue = 0
    /\ component.initCalls = 1

-----------------------------------------------------------------------------
(* Claims on the files of one pull request *)

\* the packages whose document this run has written so far
WrittenSoFar == {frame.packageCommits.keys[j] : j \in 1..(frame.k - 1)}

\* C26 as stated: within one run two affected packages with different names are
\* written to different paths, so that after its write every package's file holds
\* that package's document.
C26_DistinctNamesDistinctPaths ==
    pc = "write" =>
        \A a \in WrittenSoFar :
            /\ \A b \in WrittenSoFar : a # b => FileOf(a) # FileOf(b)
            /\ fs[FileOf(a)] = generateChangeset(a, frame.packageCommits.at[a], frame.prUrl)

\* the packages that hold an attributed commit in this run
AffectedInRun ==
    {name \in DOMAIN frame.packageCommits.at : Len(frame.packageCommits.at[name]) > 0}

\* the files of the output directory named 'auto-pr-<n>-*.md', n the number of this run
FilesOfPr ==
    {f \in DOMAIN fs : HasPrefix(f, AUTO_PR \o frame.prNumber \o <<"-">>) /\ endsWith(f, DOT_MD)}

\* the run is over, with status 0 and no failed write
RunSucceeded == pc = "done" /\ exitCode = 0 /\ At({"write failed"}) = {}

\* C27 as stated: after a run for a pull request with all writes successful, the files
\* 'auto-pr-<n>-*.md' are exactly the files of the packages affected in that run.
C27_NoStaleFile ==
    RunSucceeded => FilesOfPr = {FileOf(name) : name \in AffectedInRun}

\* C27 amended: the same, for a run made by the job of the workflow, after its
\* clean-up step.
C27_NoStaleFileAfterCleanUp ==
    (RunSucceeded /\ At({"rm"}) # {}) => FilesOfPr = {FileOf(name) : name \in AffectedInRun}

\* an earlier run wrote a file, the branch was rewritten, and the run of the job
\* found no affected package: the directory holds no file of the pull request
C27_Witness ==
    /\ RunSucceeded
    /\ At({"rm"}) # {}
    /\ runNo = 2
    /\ writtenBefore # {}
    /\ AffectedInRun = {}
    /\ FilesOfPr = {}

\* the label of the related link of a document: the text between '[#' and ']'
LabelOf(doc) ==
    LET open == PositionOf(doc, <<"[", "#">>)
        close == SetMin({q \in DOMAIN doc : q > open /\ doc[q] = "]"})
    IN  SubSeq(doc, open + 2, close - 1)

\* the identifier in a file name: the text between 'auto-pr-' and the next '-'
IdInFileName(filename) ==
    LET dash == SetMin({q \in DOMAIN filename : q > Len(AUTO_PR) /\ filename[q] = "-"})
    IN  SubSeq(filename, Len(AUTO_PR) + 1, dash - 1)

\* C28 as stated: when a PR URL is supplied, the number of the label '#<number>' of a
\* written document is the identifier in its file name, whatever the URL and the
\* explicit identifier.
C28_LabelIsFileId ==
    \A f \in written : Len(Urls) > 0 => LabelOf(fs[f]) = IdInFileName(f)

\* C28 amended: the label is the last path segment of the URL, the identifier of the
\* file name is the explicit identifier when one is given and that segment otherwise;
\* the two are the same when no explicit identifier is given or when it is that
\* segment.
C28_LabelIsUrlTail ==
    \A f \in written :
        Len(Urls) > 0 =>
            /\ LabelOf(fs[f]) = AfterLastSlash(Urls[1])
            /\ IdInFileName(f) = ClaimPrId
            /\ (Slot(3) = NullStr \/ Slot(3) = AfterLastSlash(Urls[1]))
                   => LabelOf(fs[f]) = IdInFileName(f)

\* 'dev <url ending in 7> origin/main 9': a document labelled '#7' is in a file named
\* after 9
C28_Witness ==
    /\ argv = <<Arg.src, Arg.url, Arg.tgt, Arg.nine>>
    /\ \E f \in written : LabelOf(fs[f]) = <<"7">> /\ IdInFileName(f) = <<"9">>

-----------------------------------------------------------------------------
(* Claims on a failing log query and on the bump *)

\* C29: when the commit-list query fails the run goes on as with an empty range: the
\* list main holds is empty, no changed-file query is made, no file is written or
\* changed, and the run ends with status 0 and without the closing report.
C29_LogFailureIsEmptyRange ==
    ~repo.logOk =>
        /\ pc \notin {"attribute", "write"}
        /\ Queries("show") = << >>
        /\ written = {}
        /\ fs = fsBefore
        /\ exitCode # 1
        /\ pc = "done" => (exitCode = 0 /\ frame.commits = << >> /\ frame.reported = -1)

\* the branch holds two commits, the log query was made and failed, and the run ended
\* with status 0
C29_Witness ==
    /\ ~repo.logOk
    /\ Len(repo.commits) = 2
    /\ ~changed
    /\ pc = "done"
    /\ exitCode = 0
    /\ Len(Queries("log")) = 1
    /\ Queries("show") = << >>

\* the bumps, from the lowest to the highest
Rank(bump) == IF bump = "patch" THEN 1 ELSE IF bump = "minor" THEN 2 ELSE 3

\* the commits of the list at the given places, in the order of the list
SubList(commits, places) ==
    LET nth(i) == CHOOSE p \in places : Cardinality({q \in places : q < p}) = i - 1
    IN  [i \in 1..Cardinality(places) |-> commits[nth(i)]]

\* the orders a list of n commits can be given in
Orders(n) == {f \in [1..n -> 1..n] : \A i, j \in 1..n : i # j => f[i] # f[j]}

\* C30: in a generated changeset, 'features' holds an item only if the bump is minor
\* or major, and the bump is minor only if 'features' holds an item; the bump of the
\* commits is not lower than the bump of any non-empty part of them, and is the same
\* in whatever order they are given.
C30_BumpAgreesWithCategories ==
    callRet.done =>
        /\ Len(callRet.categories.features) > 0 => callRet.versionType \in {"minor", "major"}
        /\ callRet.versionType = "minor" => Len(callRet.categories.features) > 0
        /\ \A places \in SUBSET DOMAIN callArgs.commits :
               places # {} =>
                   Rank(determineVersionType(SubList(callArgs.commits, places)))
                       <= Rank(callRet.versionType)
        /\ \A f \in Orders(Len(callArgs.commits)) :
               determineVersionType([i \in DOMAIN callArgs.commits |-> callArgs.commits[f[i]]])
                   = callRet.versionType

\* 'feature: e' and 'fix: b': the feature is listed and the bump is minor, above the
\* patch of the fix alone
C30_Witness ==
    /\ callRet.done
    /\ Len(callArgs.commits) = 2
    /\ callArgs.commits[1].message = Subject.fix
    /\ callArgs.commits[2].message = Subject.feature
    /\ Len(callRet.categories.features) = 1
    /\ callRet.versionType = "minor"
    /\ determineVersionType(SubList(callArgs.commits, {1})) = "patch"

=============================================================================
